---- MODULE Spec2Model ----
(***************************************************************************)
(* A model of open-atlas-search: the sync-state store, the indexing        *)
(* pipeline (poller and initial indexer), and the search engine facade.    *)
(* Every specification below shares the same variables; a specification    *)
(* leaves the variables of the other subsystems at their initial values.   *)
(***************************************************************************)
EXTENDS Integers, Sequences, FiniteSets, TLC

(* ------------------------------ bounds -------------------------------- *)
\* Largest document timestamp; 0 is Go's zero time.
MaxTs == 2
\* Number of documents the source collection can hold.
MaxDocs == 2
\* Largest configured search.batch_size.
MaxBatch == 2
\* Number of restarts of the process.
MaxRuns == 1

Docs == 1..MaxDocs
Ts == 0..MaxTs
Indexes == {"i1", "i2"}
\* Cap of the documents_indexed counter: what one poller can count while the
\* high-water mark climbs from zero to MaxTs.
IndexedCap == MaxTs * MaxBatch
\* database.collection of every configured index: both indexes mirror the
\* same source collection, so they share one collection key.
CollKey(i) == "db.c"
Keys == {"db.c", "db.d"}
NoState == [exists |-> FALSE]
NoFile == [exists |-> FALSE]

Max(a, b) == IF a >= b THEN a ELSE b
Min(a, b) == IF a <= b THEN a ELSE b
Range(s) == {s[n] : n \in 1..Len(s)}

VARIABLES
  cfg,      \* configuration of the run: [idx: configured indexes, batch: batch_size]
  source,   \* source collection: document -> timestamp_field value (0: absent)
  state,    \* StateManager.state.Collections: key -> CollectionState or NoState
  manifest, \* content of the file at sync_state_path (NoFile: absent)
  tmpfile,  \* content of the '.tmp' sibling (NoFile: absent)
  phase,    \* "running" | "down": whether the process is alive
  run,      \* number of restarts so far
  stopCh,   \* Service.stopCh closed
  poll,     \* per index, the poller goroutine: pc and locals of performPoll
  idx,      \* engine content per logical index: document -> timestamp written (0: none)
  hist,     \* per index, history of the last poll tick cut short before its commit
  saver,    \* StateManager.Save in progress: its position, and what it saves
  sync,     \* per collection key: sync_status, progress, total_documents
  init,     \* per index, the initial indexer goroutine: pc and locals
  engine,   \* Engine.indexes, the index configuration, the last IndexDocument
  search,   \* one SearchSharded call: shard contents, request, merge state
  corpus,   \* documents of every physical index: name -> (document ID -> fields, 0: absent)
  fsm,      \* cluster FSM: shards (placement), indexShards, result of the last Apply
  manager,  \* cluster Manager: isRunning, the parts Start brought up, the last result
  cluster,  \* several Managers and their raft instances: state, configuration, isLeader
  server,   \* the server process: position of runServer, events so far, live tasks
  locator,  \* shard lookup of one Manager: node ID, distribution, ring, last lookup
  api,      \* the HTTP API: whether credentials are configured, the last request and its response
  heap,     \* the StateManager's entries as pointers, and the pointer a caller holds
  store,    \* the StateManager under concurrent callers: entries, mutex, goroutines
  tick,     \* one poller's ticks over documents with unparseable timestamps or no id_field
  svc,      \* Service.Start's goroutines and Service.Stop
  locks,    \* the engine's two locks and the calls in progress
  twin      \* two FSM instances fed the same log

pvars == <<cfg, source, state, manifest, tmpfile, phase, run, stopCh, poll, idx, hist>>
xvars == <<cluster, server, locator, api, heap, store, tick, svc, locks, twin>>
nvars == <<corpus, fsm, manager, xvars>>
ovars == <<saver, sync, init, engine, search, corpus, fsm, manager, xvars>>
pxvars == <<pvars, xvars>>
bvars == <<pvars, saver, sync, init, engine, search, corpus, fsm, manager>>
vars == <<cfg, source, state, manifest, tmpfile, phase, run, stopCh, poll, idx, hist,
          saver, sync, init, engine, search, corpus, fsm, manager, xvars>>
\* The variables other than one of the later subsystems'.
butCluster == <<bvars, server, locator, api, heap, store, tick, svc, locks, twin>>
butServer == <<bvars, cluster, locator, api, heap, store, tick, svc, locks, twin>>
butLocator == <<bvars, cluster, server, api, heap, store, tick, svc, locks, twin>>
butApi == <<bvars, cluster, server, locator, heap, store, tick, svc, locks, twin>>
butHeap == <<bvars, cluster, server, locator, api, store, tick, svc, locks, twin>>
butStore == <<bvars, cluster, server, locator, api, heap, tick, svc, locks, twin>>
butTick == <<bvars, cluster, server, locator, api, heap, store, svc, locks, twin>>
butSvc == <<bvars, cluster, server, locator, api, heap, store, tick, locks, twin>>
butLocks == <<bvars, cluster, server, locator, api, heap, store, tick, svc, twin>>
butTwin == <<bvars, cluster, server, locator, api, heap, store, tick, svc, locks>>

(* ------------------------- sync-state store --------------------------- *)
\* CollectionState literal built by pollForChanges.
NewCollectionState(i, t) ==
  [exists |-> TRUE, lpt |-> t, lst |-> 0, indexName |-> i,
   collectionKey |-> CollKey(i), tsField |-> "updated_at", idField |-> "_id",
   docsIndexed |-> 0]

\* Entry made by a targeted setter when the key is absent.
EmptyCollectionState(k) ==
  [exists |-> TRUE, lpt |-> 0, lst |-> 0, indexName |-> "",
   collectionKey |-> k, tsField |-> "", idField |-> "", docsIndexed |-> 0]

GetCollectionState(st, k) == st[k]

UpdateCollectionState(st, k, cs) == [st EXCEPT ![k] = cs]

SetLastPollTime(st, k, t) ==
  IF st[k].exists
    THEN [st EXCEPT ![k].lpt = t]
    ELSE [st EXCEPT ![k] = [EmptyCollectionState(k) EXCEPT !.lpt = t]]

SetLastSyncTime(st, k, t) ==
  IF st[k].exists
    THEN [st EXCEPT ![k].lst = t]
    ELSE [st EXCEPT ![k] = [EmptyCollectionState(k) EXCEPT !.lst = t]]

IncrementDocumentsIndexed(st, k, n) ==
  IF st[k].exists
    THEN [st EXCEPT ![k].docsIndexed = @ + n]
    ELSE [st EXCEPT ![k] = [EmptyCollectionState(k) EXCEPT !.docsIndexed = n]]

RemoveCollectionState(st, k) == [st EXCEPT ![k] = NoState]

EmptyStore == [k \in Keys |-> NoState]

(* --------------------- manifest encoding (JSON) ----------------------- *)
\* Timestamps are instants counted in sub-second units; SubSec units make a
\* second.  time.Time marshals as RFC 3339 text with the fraction kept.
SubSec == 2

\* A time layout that keeps whole seconds only.
MarshalTimeSeconds(t) == [sec |-> t \div SubSec, frac |-> 0]

MarshalTime(t) == [sec |-> t \div SubSec, frac |-> t % SubSec]

UnmarshalTime(x) == x.sec * SubSec + x.frac

\* json.MarshalIndent(sm.state): one object per key of the Collections map.
Marshal(st) ==
  [k \in Keys |->
     IF st[k].exists
       THEN [present |-> TRUE,
             lastPollTime |-> MarshalTime(st[k].lpt),
             lastSyncTime |-> MarshalTime(st[k].lst),
             indexName |-> st[k].indexName,
             collectionKey |-> st[k].collectionKey,
             timestampField |-> st[k].tsField,
             idField |-> st[k].idField,
             documentsIndexed |-> st[k].docsIndexed]
       ELSE [present |-> FALSE]]

\* json.Unmarshal(data, sm.state): keys of the file replace the map's
\* entries, keys the file lacks keep what the map holds.
Unmarshal(data, st) ==
  [k \in Keys |->
     IF data[k].present
       THEN [exists |-> TRUE,
             lpt |-> UnmarshalTime(data[k].lastPollTime),
             lst |-> UnmarshalTime(data[k].lastSyncTime),
             indexName |-> data[k].indexName,
             collectionKey |-> data[k].collectionKey,
             tsField |-> data[k].timestampField,
             idField |-> data[k].idField,
             docsIndexed |-> data[k].documentsIndexed]
       ELSE st[k]]

\* A file holds the bytes written so far: [data, len], complete at FileLen.
FileLen == 2
Complete(f) == f.exists /\ f.len = FileLen

\* StateManager.Load on the state st: the state it leaves, and its error.
LoadState(file, st) ==
  IF ~file.exists THEN st
  ELSE IF Complete(file) THEN Unmarshal(file.data, st)
  ELSE st
LoadError(file) == file.exists /\ ~Complete(file)

(* ---------------------------- source adapter -------------------------- *)
\* All orders of the set S that ascend on the timestamp.
RECURSIVE SortedSeqs(_, _)
SortedSeqs(S, src) ==
  IF S = {} THEN {<<>>}
  ELSE UNION {{<<d>> \o s : s \in SortedSeqs(S \ {d}, src)} :
              d \in {x \in S : \A y \in S : src[x] <= src[y]}}

Entry(src, d) == [id |-> d, ts |-> src[d]]

\* FindDocumentsSince: timestamp_field > since, ascending, at most limit
\* documents; the order among equal timestamps is the server's choice.
FindDocumentsSince(src, since, limit) ==
  {[n \in 1..Min(limit, Len(s)) |-> Entry(src, s[n])] :
     s \in SortedSeqs({d \in Docs : src[d] > since}, src)}

\* GetLastDocumentTimestamp: the largest timestamp, zero time when empty.
GetLastDocumentTimestamp(src) ==
  CHOOSE t \in Ts : (\A d \in Docs : src[d] <= t) /\ (t = 0 \/ \E d \in Docs : src[d] = t)

(* ------------------------- indexing pipeline -------------------------- *)
PollIdle(pc) ==
  [pc |-> pc, lastPoll |-> 0, res |-> <<>>, pos |-> 1, newest |-> 0,
   count |-> 0, batch |-> <<>>, failed |-> {}]

\* hist[i]: the last poll tick of index i that was cut short after it had read
\* documents and before it advanced the high-water mark: how it was cut
\* ("stop": the stop channel, then a graceful exit; "kill"), the tick's
\* pre-tick last_poll_time, the documents it had read, and whether the next
\* run found the collection's state in the manifest.
NoHist == [valid |-> FALSE, kind |-> "stop", resumed |-> FALSE, pre |-> 0, lost |-> {}]

\* Documents of a batch (the _id of each entry).
BatchDocs(b) == {b[n].id : n \in 1..Len(b)}

\* indexBatchIndividual: one IndexDocument call per document, a failed call
\* is logged and skipped.  The result is the set of documents written.
indexBatchIndividual(b, mayFail) ==
  IF mayFail THEN SUBSET BatchDocs(b) ELSE {BatchDocs(b)}

\* indexBatchBulk: one IndexDocuments call; when it fails the whole batch
\* goes through indexBatchIndividual.
indexBatchBulk(b, mayFail) ==
  {BatchDocs(b)} \cup (IF mayFail THEN indexBatchIndividual(b, mayFail) ELSE {})

\* indexBatch: bulk or individual by search.bulk_indexing (the actions take
\* either value of the setting).
indexBatch(bulk, b, mayFail) ==
  IF bulk THEN indexBatchBulk(b, mayFail) ELSE indexBatchIndividual(b, mayFail)

\* The engine content after the documents W of batch b are written.
Written(ix, b, W) ==
  [d \in Docs |-> IF d \in W
                    THEN (CHOOSE e \in Range(b) : e.id = d).ts
                    ELSE ix[d]]

\* pollForChanges, first part: look the collection state up.
PollInit(i) ==
  /\ phase = "running" /\ i \in cfg.idx
  /\ poll[i].pc = "init"
  /\ poll' = [poll EXCEPT ![i].pc =
                IF GetCollectionState(state, CollKey(i)).exists THEN "wait" ELSE "initq"]
  /\ UNCHANGED <<cfg, source, state, manifest, tmpfile, phase, run, stopCh, idx, hist>>
  /\ UNCHANGED ovars

\* pollForChanges: no state found, ask the source for its newest timestamp
\* (time.Now() when the query fails: any instant).
PollInitQuery(i, mayFail) ==
  /\ phase = "running" /\ poll[i].pc = "initq"
  /\ \E failedQuery \in (IF mayFail THEN BOOLEAN ELSE {FALSE}) :
       \E t \in (IF failedQuery THEN Ts ELSE {GetLastDocumentTimestamp(source)}) :
         poll' = [poll EXCEPT ![i].pc = "initu", ![i].lastPoll = t]
  /\ UNCHANGED <<cfg, source, state, manifest, tmpfile, phase, run, stopCh, idx, hist>>
  /\ UNCHANGED ovars

\* pollForChanges: store the fresh collection state.
PollInitUpdate(i) ==
  /\ phase = "running" /\ poll[i].pc = "initu"
  /\ state' = UpdateCollectionState(state, CollKey(i),
                                    NewCollectionState(i, poll[i].lastPoll))
  /\ poll' = [poll EXCEPT ![i] = PollIdle("wait")]
  /\ UNCHANGED <<cfg, source, manifest, tmpfile, phase, run, stopCh, idx, hist>>
  /\ UNCHANGED ovars

\* performPoll up to the cursor: read the state, query the source.  With no
\* state, or a failed query, the tick returns having changed nothing (a
\* stuttering step).  The documents_indexed counter is capped here.
TickStart(i) ==
  /\ phase = "running" /\ poll[i].pc = "wait"
  /\ LET cs == GetCollectionState(state, CollKey(i)) IN
       /\ cs.exists
       /\ cs.docsIndexed + cfg.batch <= IndexedCap
       /\ \E r \in FindDocumentsSince(source, cs.lpt, cfg.batch) :
            poll' = [poll EXCEPT ![i] =
                       [pc |-> IF Len(r) = 0 THEN "flush" ELSE "iter",
                        lastPoll |-> cs.lpt, res |-> r, pos |-> 1,
                        newest |-> cs.lpt, count |-> 0, batch |-> <<>>,
                        failed |-> {}]]
  /\ hist' = [hist EXCEPT ![i] = NoHist]
  /\ UNCHANGED <<cfg, source, state, manifest, tmpfile, phase, run, stopCh, idx>>
  /\ UNCHANGED ovars

\* One turn of performPoll's cursor loop: track the newest timestamp, append
\* the document, flush a full batch, then look at the stop channel.
PollDoc(i, mayFail) ==
  /\ phase = "running" /\ poll[i].pc = "iter"
  /\ LET p == poll[i]
         e == p.res[p.pos]
         newest == IF e.ts > p.newest THEN e.ts ELSE p.newest
         b == Append(p.batch, e)
         full == Len(b) >= cfg.batch
         last == p.pos = Len(p.res)
     IN \E bulk \in BOOLEAN :
        \E W \in (IF full THEN indexBatch(bulk, b, mayFail) ELSE {{}}) :
          /\ idx' = [idx EXCEPT ![i] = IF full THEN Written(idx[i], b, W) ELSE @]
          /\ IF stopCh
               THEN /\ poll' = [poll EXCEPT ![i] = PollIdle("stopped")]
                    /\ hist' = [hist EXCEPT ![i] =
                                  [valid |-> TRUE, kind |-> "stop", resumed |-> FALSE,
                                   pre |-> p.lastPoll, lost |-> Range(p.res)]]
               ELSE /\ poll' = [poll EXCEPT ![i] =
                          [p EXCEPT !.pc = IF last THEN "flush" ELSE "iter",
                                    !.pos = p.pos + 1,
                                    !.newest = newest,
                                    !.count = p.count + 1,
                                    !.batch = IF full THEN <<>> ELSE b,
                                    !.failed = IF full THEN p.failed \cup
                                                 {x \in Range(b) : x.id \notin W}
                                               ELSE p.failed]]
                    /\ UNCHANGED hist
  /\ UNCHANGED <<cfg, source, state, manifest, tmpfile, phase, run, stopCh>>
  /\ UNCHANGED ovars

\* performPoll after the loop: index what is left in the batch.
PollFlush(i, mayFail) ==
  /\ phase = "running" /\ poll[i].pc = "flush"
  /\ LET p == poll[i] IN
     \E bulk \in BOOLEAN :
     \E W \in (IF Len(p.batch) > 0 THEN indexBatch(bulk, p.batch, mayFail) ELSE {{}}) :
       /\ idx' = [idx EXCEPT ![i] = Written(idx[i], p.batch, W)]
       /\ poll' = [poll EXCEPT ![i].pc = "commit",
                               ![i].batch = <<>>,
                               ![i].failed = p.failed \cup
                                   {x \in Range(p.batch) : x.id \notin W}]
  /\ UNCHANGED <<cfg, source, state, manifest, tmpfile, phase, run, stopCh, hist>>
  /\ UNCHANGED ovars

\* performPoll: advance the high-water mark when documents were counted.
PollCommit(i) ==
  /\ phase = "running" /\ poll[i].pc = "commit"
  /\ IF poll[i].count > 0
       THEN /\ state' = SetLastPollTime(state, CollKey(i), poll[i].newest)
            /\ poll' = [poll EXCEPT ![i].pc = "incr"]
       ELSE /\ poll' = [poll EXCEPT ![i].pc = "sync"]
            /\ UNCHANGED state
  /\ UNCHANGED <<cfg, source, manifest, tmpfile, phase, run, stopCh, idx, hist>>
  /\ UNCHANGED ovars

\* performPoll: add the tick's count to documents_indexed.
PollIncr(i) ==
  /\ phase = "running" /\ poll[i].pc = "incr"
  /\ state' = IncrementDocumentsIndexed(state, CollKey(i), poll[i].count)
  /\ poll' = [poll EXCEPT ![i].pc = "sync"]
  /\ UNCHANGED <<cfg, source, manifest, tmpfile, phase, run, stopCh, idx, hist>>
  /\ UNCHANGED ovars

\* performPoll: publish last_sync_time (1 stands for the wall clock's now).
PollSync(i) ==
  /\ phase = "running" /\ poll[i].pc = "sync"
  /\ state' = SetLastSyncTime(state, CollKey(i), 1)
  /\ poll' = [poll EXCEPT ![i] = PollIdle("wait")]
  /\ UNCHANGED <<cfg, source, manifest, tmpfile, phase, run, stopCh, idx, hist>>
  /\ UNCHANGED ovars

\* pollForChanges: the select between two ticks sees the stop channel.
PollExit(i) ==
  /\ phase = "running" /\ stopCh
  /\ poll[i].pc \in {"wait"}
  /\ poll' = [poll EXCEPT ![i] = PollIdle("stopped")]
  /\ UNCHANGED <<cfg, source, state, manifest, tmpfile, phase, run, stopCh, idx, hist>>
  /\ UNCHANGED ovars

(* ------------------------- process and source ------------------------- *)
\* A document is inserted, or updated, with a timestamp of the writer's choice.
SourceWrite ==
  /\ \E d \in Docs, t \in 1..MaxTs :
       /\ source[d] # t
       /\ source' = [source EXCEPT ![d] = t]
  /\ UNCHANGED <<cfg, state, manifest, tmpfile, phase, run, stopCh, poll, idx, hist>>
  /\ UNCHANGED ovars

\* Service.Stop: close(s.stopCh).
StopSignal ==
  /\ phase = "running" /\ ~stopCh
  /\ stopCh' = TRUE
  /\ UNCHANGED <<cfg, source, state, manifest, tmpfile, phase, run, poll, idx, hist>>
  /\ UNCHANGED ovars

\* StateManager.Save under the manager's write lock, as one step (the steps
\* of Save, and a crash between them, are SaveBegin .. SaveRename below).
SaveAtomic ==
  /\ manifest' = [exists |-> TRUE, data |-> Marshal(state), len |-> FileLen]
  /\ tmpfile' = NoFile

\* StartPeriodicSave's ticker.
PeriodicSave ==
  /\ phase = "running"
  /\ SaveAtomic
  /\ manifest' # manifest
  /\ UNCHANGED <<cfg, source, state, phase, run, stopCh, poll, idx, hist>>
  /\ UNCHANGED ovars

\* An exit that skips the final Save.
ShutdownNoSave ==
  /\ phase = "running" /\ stopCh
  /\ \A i \in cfg.idx : poll[i].pc = "stopped"
  /\ phase' = "down"
  /\ UNCHANGED <<cfg, source, state, manifest, tmpfile, run, stopCh, poll, idx, hist>>
  /\ UNCHANGED ovars

\* Service.Stop after wg.Wait(): every task has returned; the final Save,
\* then the process exits.
Shutdown ==
  /\ phase = "running" /\ stopCh
  /\ \A i \in cfg.idx : poll[i].pc = "stopped"
  /\ SaveAtomic
  /\ phase' = "down"
  /\ UNCHANGED <<cfg, source, state, run, stopCh, poll, idx, hist>>
  /\ UNCHANGED ovars

\* The process is killed: no Save; the memory is lost at the next start.  A
\* poll tick that had read documents and not yet advanced the high-water
\* mark is recorded in hist.
Kill ==
  /\ phase = "running"
  /\ phase' = "down"
  /\ hist' = [i \in Indexes |->
                IF poll[i].pc \in {"iter", "flush", "commit"} /\ Len(poll[i].res) > 0
                  THEN [valid |-> TRUE, kind |-> "kill", resumed |-> FALSE,
                        pre |-> poll[i].lastPoll, lost |-> Range(poll[i].res)]
                  ELSE [hist[i] EXCEPT !.kind = "kill"]]
  /\ UNCHANGED <<cfg, source, state, manifest, tmpfile, run, stopCh, poll, idx>>
  /\ UNCHANGED ovars

\* NewService and Service.Start of the next run: a fresh StateManager loads
\* the manifest, every poller starts over.
Start ==
  /\ phase = "down" /\ run < MaxRuns
  /\ ~LoadError(manifest)
  /\ state' = LoadState(manifest, EmptyStore)
  /\ poll' = [i \in Indexes |-> PollIdle("init")]
  /\ phase' = "running"
  /\ stopCh' = FALSE
  /\ run' = run + 1
  /\ hist' = [i \in Indexes |->
                IF hist[i].valid
                  THEN [hist[i] EXCEPT !.resumed =
                          manifest.exists /\ manifest.data[CollKey(i)].present]
                  ELSE hist[i]]
  /\ UNCHANGED <<cfg, source, manifest, tmpfile, idx>>
  /\ UNCHANGED ovars

Poller(i) ==
  \/ PollInit(i)
  \/ PollInitQuery(i, TRUE)
  \/ PollInitUpdate(i)
  \/ TickStart(i)
  \/ PollDoc(i, TRUE)
  \/ PollFlush(i, TRUE)
  \/ PollCommit(i)
  \/ PollIncr(i)
  \/ PollSync(i)
  \/ PollExit(i)

\* The poller with a source and an engine that never fail.
PollerOK(i) ==
  \/ PollInit(i)
  \/ PollInitQuery(i, FALSE)
  \/ PollInitUpdate(i)
  \/ TickStart(i)
  \/ PollDoc(i, FALSE)
  \/ PollFlush(i, FALSE)
  \/ PollCommit(i)
  \/ PollIncr(i)
  \/ PollSync(i)

\* A new document is inserted.
SourceInsert ==
  /\ \E d \in Docs, t \in 1..MaxTs :
       /\ source[d] = 0
       /\ source' = [source EXCEPT ![d] = t]
  /\ UNCHANGED <<cfg, state, manifest, tmpfile, phase, run, stopCh, poll, idx, hist>>
  /\ UNCHANGED ovars

(* ----------------------- Save, step by step --------------------------- *)
\* saver: pc of StateManager.Save ("idle": not running), the marshalled data,
\* and a record of what happened: pre (manifest when Save was called), disk
\* (the in-memory state whose Save last reached the rename), ret (how the last
\* Save returned), crashed (the process died inside Save), load (how the
\* Load of this run returned, "none" once the state was touched again).
SaverIdle ==
  [pc |-> "idle", data |-> Marshal(EmptyStore), pre |-> NoFile,
   mem |-> EmptyStore, disk |-> EmptyStore,
   ret |-> "none", crashed |-> FALSE, load |-> "none"]

\* A Save that opens the manifest itself for writing.
SaveBeginInPlace ==
  /\ phase = "running" /\ saver.pc = "idle"
  /\ saver' = [saver EXCEPT !.pc = "write", !.data = Marshal(state),
                            !.pre = manifest, !.mem = state, !.ret = "none",
                            !.crashed = FALSE, !.load = "none"]
  /\ manifest' = [exists |-> TRUE, data |-> Marshal(state), len |-> 0]
  /\ UNCHANGED <<cfg, source, state, tmpfile, phase, run, stopCh, poll, idx, hist>>
  /\ UNCHANGED <<sync, init, engine, search, nvars>>

\* Save: take the lock, marshal the state, and os.WriteFile opens the '.tmp'
\* sibling (created, or truncated when one was left behind).
SaveBegin ==
  /\ phase = "running" /\ saver.pc = "idle"
  /\ saver' = [saver EXCEPT !.pc = "write", !.data = Marshal(state),
                            !.pre = manifest, !.mem = state, !.ret = "none",
                            !.crashed = FALSE, !.load = "none"]
  /\ tmpfile' = [exists |-> TRUE, data |-> Marshal(state), len |-> 0]
  /\ UNCHANGED <<cfg, source, state, manifest, phase, run, stopCh, poll, idx, hist>>
  /\ UNCHANGED <<sync, init, engine, search, nvars>>

\* os.WriteFile: one more chunk reaches the '.tmp' file, or the write fails
\* and Save returns the error, leaving the '.tmp' file as it is.
SaveWrite ==
  /\ phase = "running" /\ saver.pc = "write"
  /\ tmpfile.exists /\ tmpfile.len < FileLen
  /\ \E fail \in BOOLEAN :
       IF fail
         THEN /\ saver' = [saver EXCEPT !.pc = "idle", !.ret = "err"]
              /\ UNCHANGED tmpfile
         ELSE /\ tmpfile' = [tmpfile EXCEPT !.len = @ + 1]
              /\ saver' = [saver EXCEPT !.pc =
                             IF tmpfile.len + 1 = FileLen THEN "rename" ELSE "write"]
  /\ UNCHANGED <<cfg, source, state, manifest, phase, run, stopCh, poll, idx, hist>>
  /\ UNCHANGED <<sync, init, engine, search, nvars>>

\* os.Rename(tempFile, filePath), or its failure.
SaveRename ==
  /\ phase = "running" /\ saver.pc = "rename"
  /\ \E fail \in BOOLEAN :
       IF fail
         THEN /\ saver' = [saver EXCEPT !.pc = "idle", !.ret = "err"]
              /\ UNCHANGED <<manifest, tmpfile>>
         ELSE /\ manifest' = tmpfile
              /\ tmpfile' = NoFile
              /\ saver' = [saver EXCEPT !.pc = "ret", !.disk = saver.mem]
  /\ UNCHANGED <<cfg, source, state, phase, run, stopCh, poll, idx, hist>>
  /\ UNCHANGED <<sync, init, engine, search, nvars>>

\* Save returns nil and releases the lock.
SaveReturn ==
  /\ phase = "running" /\ saver.pc = "ret"
  /\ saver' = [saver EXCEPT !.pc = "idle", !.ret = "ok"]
  /\ UNCHANGED <<cfg, source, state, manifest, tmpfile, phase, run, stopCh, poll, idx, hist>>
  /\ UNCHANGED <<sync, init, engine, search, nvars>>

\* A setter of the store runs (it needs the lock Save holds).
Mutate ==
  /\ phase = "running" /\ saver.pc = "idle"
  /\ LET k == "db.c" IN
     \E t \in Ts :
       \/ state' = SetLastPollTime(state, k, t)
       \/ state' = SetLastSyncTime(state, k, 1)
       \/ /\ state[k].exists => state[k].docsIndexed < 1
          /\ state' = IncrementDocumentsIndexed(state, k, 1)
       \/ state' = UpdateCollectionState(state, k, NewCollectionState("i1", t))
       \/ state' = RemoveCollectionState(state, k)
  /\ state' # state
  /\ saver' = [saver EXCEPT !.load = "none"]
  /\ UNCHANGED <<cfg, source, manifest, tmpfile, phase, run, stopCh, poll, idx, hist>>
  /\ UNCHANGED <<sync, init, engine, search, nvars>>

\* The process dies, possibly inside Save; the files stay as they are.
Crash ==
  /\ phase = "running"
  /\ phase' = "down"
  /\ state' = EmptyStore
  /\ saver' = [saver EXCEPT !.pc = "idle", !.load = "none",
                            !.crashed = (saver.pc # "idle")]
  /\ UNCHANGED <<cfg, source, manifest, tmpfile, run, stopCh, poll, idx, hist>>
  /\ UNCHANGED <<sync, init, engine, search, nvars>>

\* The next run: NewStateManager and Load.
Restart ==
  /\ phase = "down" /\ run < MaxRuns
  /\ phase' = "running"
  /\ run' = run + 1
  /\ state' = LoadState(manifest, EmptyStore)
  /\ saver' = [saver EXCEPT !.load = IF LoadError(manifest) THEN "err" ELSE "ok"]
  /\ UNCHANGED <<cfg, source, manifest, tmpfile, stopCh, poll, idx, hist>>
  /\ UNCHANGED <<sync, init, engine, search, nvars>>

(* --------------------------- initial indexer -------------------------- *)
\* sync[k]: the sync_status, progress and total_documents of the collection
\* state (total 0: unknown).  Their setters create the entry when absent.
SyncIdle == [k \in Keys |-> [status |-> "idle", progress |-> "", total |-> 0]]

Pct(n) == ToString(n) \o "%"

\* progress as recomputed from documents_indexed and total_documents.
Progress(docs, total) ==
  IF total <= 0 THEN "not_available" ELSE Pct(Min(100, (100 * docs) \div total))

Touch(st, k) == IF st[k].exists THEN st ELSE [st EXCEPT ![k] = EmptyCollectionState(k)]

SetSyncStatus(sy, k, v) == [sy EXCEPT ![k].status = v]

SetProgress(sy, k, p) == [sy EXCEPT ![k].progress = p]

SetTotalDocuments(sy, k, n, docs) ==
  [sy EXCEPT ![k].total = n, ![k].progress = Progress(docs, n)]

UpdateProgress(sy, k, docs) ==
  [sy EXCEPT ![k].progress = Progress(docs, sy[k].total)]

\* CountDocuments(collection, {}).
CountDocuments(src) == Cardinality({d \in Docs : src[d] > 0})

\* FindDocuments(collection, {}, 0): every document, in the server's order.
RECURSIVE Perms(_)
Perms(S) ==
  IF S = {} THEN {<<>>}
  ELSE UNION {{<<d>> \o q : q \in Perms(S \ {d})} : d \in S}

FindDocuments(src) ==
  {[n \in 1..Len(q) |-> Entry(src, q[n])] : q \in Perms({d \in Docs : src[d] > 0})}

InitIdle(pc) == [pc |-> pc, res |-> <<>>, pos |-> 1, batch |-> <<>>, count |-> 0]

\* performInitialIndexing: sync_status := in_progress, progress := "0%".
InitStart(i) ==
  /\ phase = "running" /\ i \in cfg.idx
  /\ init[i].pc = "start"
  /\ sync' = SetProgress(SetSyncStatus(sync, CollKey(i), "in_progress"), CollKey(i), Pct(0))
  /\ state' = Touch(state, CollKey(i))
  /\ init' = [init EXCEPT ![i].pc = "count"]
  /\ UNCHANGED <<cfg, source, manifest, tmpfile, phase, run, stopCh, poll, idx, hist>>
  /\ UNCHANGED <<saver, engine, search, nvars>>

\* performInitialIndexing: count the collection; a failed count makes the
\* progress "not_available".
InitCount(i) ==
  /\ phase = "running" /\ init[i].pc = "count"
  /\ \E fail \in BOOLEAN :
       sync' = IF fail
                 THEN SetProgress(sync, CollKey(i), "not_available")
                 ELSE SetTotalDocuments(sync, CollKey(i), CountDocuments(source),
                                        state[CollKey(i)].docsIndexed)
  /\ init' = [init EXCEPT ![i].pc = "open"]
  /\ UNCHANGED <<cfg, source, state, manifest, tmpfile, phase, run, stopCh, poll, idx, hist>>
  /\ UNCHANGED <<saver, engine, search, nvars>>

\* A cursor failure handled like a completed scan: progress set to "100%".
InitOpenMarksComplete(i) ==
  /\ phase = "running" /\ init[i].pc = "open"
  /\ \E fail \in BOOLEAN :
       IF fail
         THEN /\ sync' = SetProgress(SetSyncStatus(sync, CollKey(i), "idle"),
                                     CollKey(i), Pct(100))
              /\ init' = [init EXCEPT ![i].pc = "failed"]
         ELSE /\ \E r \in FindDocuments(source) :
                   init' = [init EXCEPT ![i].pc = IF Len(r) = 0 THEN "rest" ELSE "iter",
                                        ![i].res = r, ![i].pos = 1]
              /\ UNCHANGED sync
  /\ UNCHANGED <<cfg, source, state, manifest, tmpfile, phase, run, stopCh, poll, idx, hist>>
  /\ UNCHANGED <<saver, engine, search, nvars>>

\* performInitialIndexing: open the cursor over the whole collection; when
\* that fails, sync_status := idle and the task returns.
InitOpen(i) ==
  /\ phase = "running" /\ init[i].pc = "open"
  /\ \E fail \in BOOLEAN :
       IF fail
         THEN /\ sync' = SetSyncStatus(sync, CollKey(i), "idle")
              /\ init' = [init EXCEPT ![i].pc = "failed"]
         ELSE /\ \E r \in FindDocuments(source) :
                   init' = [init EXCEPT ![i].pc = IF Len(r) = 0 THEN "rest" ELSE "iter",
                                        ![i].res = r, ![i].pos = 1]
              /\ UNCHANGED sync
  /\ UNCHANGED <<cfg, source, state, manifest, tmpfile, phase, run, stopCh, poll, idx, hist>>
  /\ UNCHANGED <<saver, engine, search, nvars>>

\* One turn of the cursor loop: append the document, index a full batch
\* (documents_indexed += batch_size, progress recomputed), then look at the
\* stop channel.
InitDoc(i, mayFail) ==
  /\ phase = "running" /\ init[i].pc = "iter"
  /\ LET p == init[i]
         k == CollKey(i)
         b == Append(p.batch, p.res[p.pos])
         full == Len(b) >= cfg.batch
         last == p.pos = Len(p.res)
         st == IF full THEN IncrementDocumentsIndexed(state, k, cfg.batch) ELSE state
     IN /\ \E bulk \in BOOLEAN :
           \E W \in (IF full THEN indexBatch(bulk, b, mayFail) ELSE {{}}) :
             idx' = [idx EXCEPT ![i] = IF full THEN Written(idx[i], b, W) ELSE @]
        /\ state' = st
        /\ sync' = IF full THEN UpdateProgress(sync, k, st[k].docsIndexed) ELSE sync
        /\ init' = [init EXCEPT ![i] =
                      IF stopCh THEN InitIdle("stopped")
                      ELSE [p EXCEPT !.pc = IF last THEN "rest" ELSE "iter",
                                     !.pos = p.pos + 1,
                                     !.batch = IF full THEN <<>> ELSE b,
                                     !.count = IF full THEN p.count + cfg.batch ELSE p.count]]
  /\ UNCHANGED <<cfg, source, manifest, tmpfile, phase, run, stopCh, poll, hist>>
  /\ UNCHANGED <<saver, engine, search, nvars>>

\* performInitialIndexing after the loop: index what is left in the batch.
InitRest(i, mayFail) ==
  /\ phase = "running" /\ init[i].pc = "rest"
  /\ LET p == init[i]
         k == CollKey(i)
         some == Len(p.batch) > 0
         st == IF some THEN IncrementDocumentsIndexed(state, k, Len(p.batch)) ELSE state
     IN /\ \E bulk \in BOOLEAN :
           \E W \in (IF some THEN indexBatch(bulk, p.batch, mayFail) ELSE {{}}) :
             idx' = [idx EXCEPT ![i] = Written(idx[i], p.batch, W)]
        /\ state' = st
        /\ sync' = IF some THEN UpdateProgress(sync, k, st[k].docsIndexed) ELSE sync
        /\ init' = [init EXCEPT ![i].pc = "finish", ![i].batch = <<>>,
                                ![i].count = p.count + Len(p.batch)]
  /\ UNCHANGED <<cfg, source, manifest, tmpfile, phase, run, stopCh, poll, hist>>
  /\ UNCHANGED <<saver, engine, search, nvars>>

\* performInitialIndexing: sync_status := idle, progress := "100%".
InitFinish(i) ==
  /\ phase = "running" /\ init[i].pc = "finish"
  /\ sync' = SetProgress(SetSyncStatus(sync, CollKey(i), "idle"), CollKey(i), Pct(100))
  /\ init' = [init EXCEPT ![i].pc = "done"]
  /\ UNCHANGED <<cfg, source, state, manifest, tmpfile, phase, run, stopCh, poll, idx, hist>>
  /\ UNCHANGED <<saver, engine, search, nvars>>

\* The initial indexer as the poller of the same index sees it: its first
\* setter call creates the collection's entry when none is stored yet.
InitialIndexerCreatesState(i) ==
  /\ phase = "running" /\ i \in cfg.idx
  /\ ~state[CollKey(i)].exists
  /\ state' = Touch(state, CollKey(i))
  /\ UNCHANGED <<cfg, source, manifest, tmpfile, phase, run, stopCh, poll, idx, hist>>
  /\ UNCHANGED ovars

InitialIndexer(i) ==
  \/ InitStart(i)
  \/ InitCount(i)
  \/ InitOpen(i)
  \/ InitDoc(i, TRUE)
  \/ InitRest(i, TRUE)
  \/ InitFinish(i)

(* ----------------------- engine: shard routing ------------------------ *)
\* Index names and document IDs are strings, modelled as sequences of
\* one-character strings so that the code's byte slicing can be followed.
MaxShards == 2
ShardSuffix == <<"_", "s", "h", "a", "r", "d", "_">>
NameA == <<"a">>
NameAB == <<"a", "b">>
NameAShardX == NameA \o ShardSuffix \o <<"x">>
LogicalNames == {NameA, NameAB, NameAShardX}
DocIDs == {<<"a">>, <<"b">>, <<"a", "b">>}
\* The IDs written where every configuration of the three names is followed.
RouteIDs == {<<"a">>, <<"b">>}

\* fmt.Sprintf("%s_shard_%d", indexName, shard)
ShardName(n, k) == n \o ShardSuffix \o <<ToString(k)>>

\* The byte of a character.
Ord(c) == CASE c = "a" -> 97 [] c = "b" -> 98 [] c = "x" -> 120 [] OTHER -> 95

\* fnv32 works on uint32; a value is kept as two 16-bit halves [hi, lo].
Half == 65536
Offset32Hi == 33052
Offset32Lo == 40389
Prime32Hi == 256
Prime32Lo == 403

RECURSIVE Xor(_, _)
Xor(a, b) ==
  IF a = 0 THEN b
  ELSE IF b = 0 THEN a
  ELSE (((a % 2) + (b % 2)) % 2) + 2 * Xor(a \div 2, b \div 2)

\* hash *= prime32 (mod 2^32)
MulPrime(h) ==
  LET low == h.lo * Prime32Lo
  IN [hi |-> ((h.hi * Prime32Lo) + (h.lo * Prime32Hi) + (low \div Half)) % Half,
      lo |-> low % Half]

RECURSIVE fnv32From(_, _, _)
fnv32From(h, data, n) ==
  IF n > Len(data) THEN h
  ELSE fnv32From(MulPrime([hi |-> h.hi, lo |-> Xor(h.lo, Ord(data[n]))]), data, n + 1)

fnv32(data) == fnv32From([hi |-> Offset32Hi, lo |-> Offset32Lo], data, 1)

\* int(hash) % shardCount, int being 64 bits wide.
HashMod(h, c) == (((h.hi % c) * (Half % c)) + h.lo) % c

\* The test of getShardForDocument and getShardsForIndex on one map key.
\* name[len(indexName):len(indexName)+7] panics when name is too short.
SlicePanics(name, indexName) ==
  /\ Len(name) > Len(indexName)
  /\ SubSeq(name, 1, Len(indexName)) = indexName
  /\ Len(name) < Len(indexName) + 7

IsShardOf(name, indexName) ==
  /\ Len(name) > Len(indexName)
  /\ SubSeq(name, 1, Len(indexName)) = indexName
  /\ SubSeq(name, Len(indexName) + 1, Len(indexName) + 7) = ShardSuffix

\* getShardForDocument: the shard count is the number of map keys that look
\* like a shard of indexName.
getShardForDocument(indexes, indexName, docID) ==
  IF \E name \in indexes : SlicePanics(name, indexName)
    THEN [panic |-> TRUE, name |-> indexName]
    ELSE LET shardCount == Cardinality({name \in indexes : IsShardOf(name, indexName)})
         IN IF shardCount = 0
              THEN [panic |-> FALSE, name |-> indexName]
              ELSE [panic |-> FALSE,
                    name |-> ShardName(indexName, HashMod(fnv32(docID), shardCount))]

\* The shard count getShardForDocument computes (0 when the scan panics).
shardCount(indexes, indexName) ==
  IF \E name \in indexes : SlicePanics(name, indexName) THEN 0
  ELSE Cardinality({name \in indexes : IsShardOf(name, indexName)})

\* getShardsForIndex: the map keys that look like a shard of indexName.
getShardsForIndex(indexes, indexName) ==
  IF \E name \in indexes : SlicePanics(name, indexName)
    THEN [panic |-> TRUE, shards |-> {}]
    ELSE [panic |-> FALSE, shards |-> {name \in indexes : IsShardOf(name, indexName)}]

\* The physical indexes CreateIndex makes for a configured index.
PhysicalNames(n, S) == IF S > 1 THEN {ShardName(n, k) : k \in 0..(S - 1)} ELSE {n}

\* Documents.  A physical index holds, per document ID, the fields last
\* written under that ID (0: no such document); its directory lives on disk
\* from bleve.New until os.RemoveAll, across restarts.
MaxField == 2
Fields == 1..MaxField
NoDocs == [id \in DocIDs \cup {<<>>} |-> 0]
NoCorpus == [name \in {} |-> NoDocs]

\* index.DocCount()
DocCount(docs) == Cardinality({id \in DOMAIN docs : docs[id] # 0})

NoWrite == [op |-> "none", index |-> <<>>, id |-> <<>>, fields |-> 0, batch |-> <<>>,
            present |-> FALSE, kind |-> "none", shard |-> <<>>, seq |-> 0,
            repeat |-> FALSE, count |-> 0]

EngineIdle == [shards |-> [n \in LogicalNames |-> 0], indexes |-> {}, last |-> NoWrite]

\* The record of a call: what was called and how it ended; present: every
\* physical index of the configured index was open; repeat: the call before
\* it was the same call.
Called(op, n, id, f, kind, shard) ==
  [op |-> op, index |-> n, id |-> id, fields |-> f, batch |-> <<>>,
   present |-> PhysicalNames(n, engine.shards[n]) \subseteq engine.indexes,
   kind |-> kind, shard |-> shard, seq |-> 1 - engine.last.seq,
   repeat |-> /\ engine.last.op = op /\ engine.last.index = n
              /\ engine.last.id = id /\ engine.last.fields = f,
   count |-> 0]

\* bleve.Open(path), and bleve.New(path, mapping) when there is nothing to
\* open: the directories of the names, those on disk kept as they are.
OpenOrNew(cp, names) ==
  [name \in (DOMAIN cp) \cup names |-> IF name \in DOMAIN cp THEN cp[name] ELSE NoDocs]

\* os.RemoveAll(path) for every name of names.
RemoveAll(cp, names) == [name \in (DOMAIN cp) \ names |-> cp[name]]

\* Engine.CreateIndex for a configured index.
CreateIndex(n) ==
  /\ engine.shards[n] >= 1
  /\ ~(PhysicalNames(n, engine.shards[n]) \subseteq engine.indexes)
  /\ engine' = [engine EXCEPT !.indexes = @ \cup PhysicalNames(n, engine.shards[n]),
                               !.last = Called("create", n, <<>>, 0, "ok", n)]
  /\ corpus' = OpenOrNew(corpus, PhysicalNames(n, engine.shards[n]))
  /\ UNCHANGED pxvars
  /\ UNCHANGED <<saver, sync, init, search, fsm, manager>>

\* Engine.CleanupIndexes: every map key that is not the name of a configured
\* index is removed, from the map and from the disk.
CleanupIndexes ==
  /\ engine' = [engine EXCEPT !.indexes =
                  {name \in @ : name \in LogicalNames /\ engine.shards[name] >= 1},
                  !.last = [NoWrite EXCEPT !.op = "cleanup", !.kind = "ok",
                                           !.seq = 1 - engine.last.seq]]
  /\ engine'.indexes # engine.indexes
  /\ corpus' = RemoveAll(corpus, engine.indexes \ engine'.indexes)
  /\ UNCHANGED pxvars
  /\ UNCHANGED <<saver, sync, init, search, fsm, manager>>

\* A restart: NewEngine starts with an empty map; the disk is as it was.
NewEngine ==
  /\ engine.indexes # {}
  /\ engine' = [engine EXCEPT !.indexes = {}, !.last = NoWrite]
  /\ UNCHANGED pxvars
  /\ UNCHANGED <<saver, sync, init, search, corpus, fsm, manager>>

\* index.Index(docID, doc) of bleve: the document takes the place of what
\* the ID held.
BleveIndex(docs, id, f) == [docs EXCEPT ![id] = f]

\* A routing by load: the physical index of the name that holds the fewest
\* documents takes the write.
IndexDocumentOnLeastLoaded(ixs, cp, n, id, f) ==
  LET own == {name \in ixs : name = n \/ (Len(name) >= Len(n) + 7 /\ IsShardOf(name, n))} IN
  IF own = {} \/ id = <<>> THEN [kind |-> "error", shard |-> n, corpus |-> cp]
  ELSE LET sh == CHOOSE x \in own : \A y \in own : DocCount(cp[x]) <= DocCount(cp[y])
       IN [kind |-> "written", shard |-> sh,
           corpus |-> [cp EXCEPT ![sh] = BleveIndex(@, id, f)]]

\* Engine.IndexDocument(indexName, docID, doc) on the indexes ixs holding cp;
\* bleve refuses an empty ID.
IndexDocumentOn(ixs, cp, n, id, f) ==
  LET r == getShardForDocument(ixs, n, id) IN
  IF r.panic THEN [kind |-> "panic", shard |-> r.name, corpus |-> cp]
  ELSE IF r.name \notin ixs \/ id = <<>>
    THEN [kind |-> "error", shard |-> r.name, corpus |-> cp]
    ELSE [kind |-> "written", shard |-> r.name,
          corpus |-> [cp EXCEPT ![r.name] = BleveIndex(@, id, f)]]

\* Engine.IndexDocument(indexName, docID, doc).
IndexDocument(n, id, f) ==
  /\ engine.shards[n] >= 1
  /\ LET r == IndexDocumentOn(engine.indexes, corpus, n, id, f)
     IN /\ engine' = [engine EXCEPT !.last =
                         [Called("index", n, id, f, r.kind, r.shard)
                            EXCEPT !.count = shardCount(engine.indexes, n)]]
        /\ corpus' = r.corpus
  /\ UNCHANGED pxvars
  /\ UNCHANGED <<saver, sync, init, search, fsm, manager>>

\* Engine.SearchSharded(req) up to the choice of the indexes searched: the
\* shards found are searched, and the index itself when none is found
\* (Engine.Search answers "not found" for a name that is not a map key).
SearchShardedOn(ixs, n) ==
  LET r == getShardsForIndex(ixs, n) IN
  IF r.panic THEN [kind |-> "panic", searched |-> {}]
  ELSE IF r.shards = {}
    THEN [kind |-> IF n \in ixs THEN "ok" ELSE "error", searched |-> {n} \cap ixs]
    ELSE [kind |-> "ok", searched |-> r.shards]

SearchSharded(n) ==
  /\ engine.shards[n] >= 1
  /\ LET r == SearchShardedOn(engine.indexes, n)
     IN engine' = [engine EXCEPT !.last =
                     [Called("search", n, <<>>, 0, r.kind, n)
                        EXCEPT !.count = Cardinality(r.searched \ {n})]]
  /\ UNCHANGED <<corpus, pxvars>>
  /\ UNCHANGED <<saver, sync, init, search, fsm, manager>>

\* Engine.DeleteDocument(indexName, docID): index.Delete on the map entry of
\* indexName itself.
DeleteDocument(n, id) ==
  /\ engine.shards[n] >= 1
  /\ IF n \in engine.indexes
       THEN /\ engine' = [engine EXCEPT !.last = Called("delete", n, id, 0, "deleted", n)]
            /\ corpus' = [corpus EXCEPT ![n][id] = 0]
       ELSE /\ engine' = [engine EXCEPT !.last = Called("delete", n, id, 0, "error", n)]
            /\ corpus' = corpus
  /\ UNCHANGED pxvars
  /\ UNCHANGED <<saver, sync, init, search, fsm, manager>>

\* Engine.RemoveIndex(indexName): the map entry of indexName itself is closed,
\* deleted from the map and its directory removed.
RemoveIndex(n) ==
  /\ engine.shards[n] >= 1
  /\ IF n \in engine.indexes
       THEN /\ engine' = [engine EXCEPT !.indexes = @ \ {n},
                                        !.last = Called("remove", n, <<>>, 0, "removed", n)]
            /\ corpus' = RemoveAll(corpus, {n})
       ELSE /\ engine' = [engine EXCEPT !.last = Called("remove", n, <<>>, 0, "error", n)]
            /\ corpus' = corpus
  /\ UNCHANGED pxvars
  /\ UNCHANGED <<saver, sync, init, search, fsm, manager>>

\* A batch of the pipeline: documents [id, fields]; an _id of "" gives the
\* empty document ID, which bleve refuses.
BatchIDs == RouteIDs \cup {<<>>}
\* The k-th document of a batch carries the k-th fields, so that two
\* documents of one ID differ.
Batches ==
  UNION {{[k \in 1..n |-> [id |-> ids[k], fields |-> ((k - 1) % MaxField) + 1]] :
            ids \in [1..n -> BatchIDs]} : n \in 0..MaxBatch}

\* batch.Index(id, doc) for the documents from position k on: a refused
\* document does not enter the batch (the error is dropped), the others
\* are applied in order.
RECURSIVE BatchIndex(_, _, _)
BatchIndex(docs, b, k) ==
  IF k > Len(b) THEN docs
  ELSE BatchIndex(IF b[k].id = <<>> THEN docs ELSE BleveIndex(docs, b[k].id, b[k].fields),
                  b, k + 1)

\* Engine.IndexDocuments(indexName, docs): one bleve batch on the map entry of
\* indexName itself.  whole: index.Batch returns the refusal of a document
\* as the error of the batch, with nothing applied.
IndexDocumentsOn(ixs, cp, n, b, whole) ==
  IF n \notin ixs THEN [err |-> TRUE, corpus |-> cp]
  ELSE IF whole /\ \E k \in 1..Len(b) : b[k].id = <<>> THEN [err |-> TRUE, corpus |-> cp]
  ELSE [err |-> FALSE, corpus |-> [cp EXCEPT ![n] = BatchIndex(@, b, 1)]]

\* indexBatchIndividual on the engine: IndexDocument for the documents from
\* position k on, a failed call logged and skipped; a panic ends the process.
RECURSIVE indexBatchIndividualOn(_, _, _, _, _)
indexBatchIndividualOn(ixs, cp, n, b, k) ==
  IF k > Len(b) THEN cp
  ELSE LET r == IndexDocumentOn(ixs, cp, n, b[k].id, b[k].fields)
       IN IF r.kind = "panic" THEN cp
          ELSE indexBatchIndividualOn(ixs, r.corpus, n, b, k + 1)

\* indexBatchBulk on the engine: IndexDocuments, and indexBatchIndividual
\* when it returns an error.
indexBatchBulkOn(ixs, cp, n, b, whole) ==
  IF Len(b) = 0 THEN cp
  ELSE LET r == IndexDocumentsOn(ixs, cp, n, b, whole)
       IN IF r.err THEN indexBatchIndividualOn(ixs, cp, n, b, 1) ELSE r.corpus

\* Service.indexBatch(indexName, batch) under search.bulk_indexing = bulk.
IndexBatch(n, b, bulk, whole) ==
  /\ engine.shards[n] >= 1
  /\ whole => bulk
  /\ corpus' = IF bulk THEN indexBatchBulkOn(engine.indexes, corpus, n, b, whole)
                       ELSE indexBatchIndividualOn(engine.indexes, corpus, n, b, 1)
  /\ engine' = [engine EXCEPT !.last =
       [Called("batch", n, <<>>, 0, IF bulk THEN "bulk" ELSE "individual", n)
          EXCEPT !.batch = b]]
  /\ UNCHANGED pxvars
  /\ UNCHANGED <<saver, sync, init, search, fsm, manager>>

(* ----------------------- engine: sharded search ---------------------- *)
\* A shard holds the hits of the query as their scores, best first.
MaxHits == 2
TopScore == 2
Shards == {"s0", "s1"}
Scores == 1..TopScore

IsDesc(q) == \A n \in 1..(Len(q) - 1) : q[n] >= q[n + 1]

\* The hit lists a shard can hold: at most MaxHits scores, best first.
HitLists == {q \in UNION {[1..n -> Scores] : n \in 0..MaxHits} : IsDesc(q)}

\* Engine.Search on one index: Size and From go to the index unchanged; the
\* total and the max score are those of all the hits of the query.
Search(hits, from, size) ==
  [hits |-> SubSeq(hits, from + 1, Min(Len(hits), from + size)),
   total |-> Len(hits),
   maxScore |-> IF Len(hits) = 0 THEN 0 ELSE hits[1]]

\* sortHitsByScore: descending by score.
RECURSIVE sortHitsByScore(_)
sortHitsByScore(hits) ==
  IF Len(hits) = 0 THEN <<>>
  ELSE LET m == CHOOSE n \in 1..Len(hits) : \A j \in 1..Len(hits) : hits[n] >= hits[j]
       IN <<hits[m]>> \o
          sortHitsByScore([n \in 1..(Len(hits) - 1) |-> IF n < m THEN hits[n] ELSE hits[n + 1]])

\* SearchSharded's pagination of the merged hits.
Paginate(hits, from, size) ==
  LET sz == IF size = 0 THEN 10 ELSE size
  IN IF from >= Len(hits) THEN <<>>
     ELSE SubSeq(hits, from + 1, Min(Len(hits), from + sz))

\* Facets.  The request asks for one terms facet.  A shard's result carries
\* the facet as a bucket list, one {key, count} bucket per term, or carries no
\* facets at all; a bucket list is kept as the function key -> count over the
\* keys it holds (the order of the buckets plays no part in the merge).
MaxCount == 2
FacetKeys == {"x", "y"}
FacetShards == {"s0", "s1", "s2"}
NoBuckets == [k \in {} |-> 0]
NoFacet == [exists |-> FALSE, buckets |-> NoBuckets]
BucketLists == UNION {[K -> 1..MaxCount] : K \in SUBSET FacetKeys}
ShardFacets == {NoFacet} \cup {[exists |-> TRUE, buckets |-> b] : b \in BucketLists}

\* A merge that stores the counts of buckets2 over those of buckets1.
mergeFacetBucketsOverwrite(buckets1, buckets2) ==
  [k \in (DOMAIN buckets1) \cup (DOMAIN buckets2) |->
     IF k \in DOMAIN buckets2 THEN buckets2[k] ELSE buckets1[k]]

\* mergeFacetBuckets: the counts of buckets1 go into a map, the counts of
\* buckets2 are added to it (a missing key reads as zero), and the map is
\* turned back into a bucket list.
mergeFacetBuckets(buckets1, buckets2) ==
  LET bucketMap == [k \in DOMAIN buckets1 |-> buckets1[k]]
  IN [k \in (DOMAIN bucketMap) \cup (DOMAIN buckets2) |->
        (IF k \in DOMAIN bucketMap THEN bucketMap[k] ELSE 0)
        + (IF k \in DOMAIN buckets2 THEN buckets2[k] ELSE 0)]

\* The facet part of SearchSharded's collection loop: the first facet seen is
\* taken as it is, a later one is merged into what is there.
MergeFacets(allFacets, facet) ==
  IF ~facet.exists THEN allFacets
  ELSE IF allFacets.exists
    THEN [exists |-> TRUE, buckets |-> mergeFacetBuckets(allFacets.buckets, facet.buckets)]
    ELSE facet

NoResult == [err |-> FALSE, hits |-> <<>>, total |-> 0, maxScore |-> 0, facets |-> NoFacet]

SearchIdle ==
  [pc |-> "idle", shard |-> [sh \in Shards |-> <<>>],
   facet |-> [sh \in Shards |-> NoFacet], from |-> 0, size |-> 0,
   pending |-> {}, failed |-> {}, allHits |-> <<>>, allFacets |-> NoFacet,
   totalCount |-> 0, maxScore |-> 0, result |-> NoResult]

\* SearchSharded: the request goes to every shard.
SearchStart ==
  /\ search.pc = "idle"
  /\ \E from \in 0..MaxHits, size \in 0..MaxHits :
       search' = [search EXCEPT !.pc = "collect", !.from = from, !.size = size,
                                !.pending = DOMAIN search.shard]
  /\ UNCHANGED pxvars
  /\ UNCHANGED <<saver, sync, init, engine, nvars>>

\* A collection loop that gives up at the first failed shard.
ShardReplyAbort(sh) ==
  /\ search.pc = "collect" /\ sh \in search.pending
  /\ \E fail \in BOOLEAN :
       IF fail
         THEN search' = [search EXCEPT !.pc = "done", !.pending = {},
                                       !.failed = @ \cup {sh},
                                       !.result = [NoResult EXCEPT !.err = TRUE]]
         ELSE LET r == Search(search.shard[sh], search.from, search.size)
              IN search' = [search EXCEPT
                   !.pending = @ \ {sh},
                   !.allHits = @ \o r.hits,
                   !.allFacets = MergeFacets(@, search.facet[sh]),
                   !.totalCount = @ + r.total,
                   !.maxScore = IF r.maxScore > @ THEN r.maxScore ELSE @]
  /\ UNCHANGED pxvars
  /\ UNCHANGED <<saver, sync, init, engine, nvars>>

\* SearchSharded's collection loop takes the next reply, of shard sh: a
\* failed search is logged and skipped, a result is merged.
ShardReply(sh) ==
  /\ search.pc = "collect" /\ sh \in search.pending
  /\ \E fail \in BOOLEAN :
       IF fail
         THEN search' = [search EXCEPT !.pending = @ \ {sh}, !.failed = @ \cup {sh}]
         ELSE LET r == Search(search.shard[sh], search.from, search.size)
              IN search' = [search EXCEPT
                   !.pending = @ \ {sh},
                   !.allHits = @ \o r.hits,
                   !.allFacets = MergeFacets(@, search.facet[sh]),
                   !.totalCount = @ + r.total,
                   !.maxScore = IF r.maxScore > @ THEN r.maxScore ELSE @]
  /\ UNCHANGED pxvars
  /\ UNCHANGED <<saver, sync, init, engine, nvars>>

\* SearchSharded after the loop: sort, paginate, return.
SearchFinish ==
  /\ search.pc = "collect" /\ search.pending = {}
  /\ search' = [search EXCEPT !.pc = "done",
                  !.result = [err |-> FALSE,
                              facets |-> search.allFacets,
                              hits |-> Paginate(sortHitsByScore(search.allHits),
                                                search.from, search.size),
                              total |-> search.totalCount,
                              maxScore |-> search.maxScore]]
  /\ UNCHANGED pxvars
  /\ UNCHANGED <<saver, sync, init, engine, nvars>>

(* -------------------------- cluster: the FSM -------------------------- *)
\* JSON texts, by their structure, and the Go values encoding/json turns them
\* into and back.  An interface{} target receives a JSON array as
\* []interface{} and a JSON object as map[string]interface{}; a []string
\* exists only where Go code builds one or a []string target is decoded.
JNull == [t |-> "null"]
JString(x) == [t |-> "string", v |-> x]
JArray(q) == [t |-> "array", v |-> q]
JObject(f) == [t |-> "object", v |-> f]
GoNil == [t |-> "nil"]
GoString(x) == [t |-> "string", v |-> x]
GoIfaceSlice(q) == [t |-> "[]interface{}", v |-> q]
GoStringSlice(q) == [t |-> "[]string", v |-> q]
GoMap(f) == [t |-> "map[string]interface{}", v |-> f]

\* json.Unmarshal / Decode into an interface{}.
RECURSIVE jsonDecodeIface(_)
jsonDecodeIface(j) ==
  CASE j.t = "null" -> GoNil
    [] j.t = "string" -> GoString(j.v)
    [] j.t = "array" -> GoIfaceSlice([k \in DOMAIN j.v |-> jsonDecodeIface(j.v[k])])
    [] j.t = "object" -> GoMap([k \in DOMAIN j.v |-> jsonDecodeIface(j.v[k])])

\* json.Marshal / Encode of a Go value.
RECURSIVE jsonEncode(_)
jsonEncode(g) ==
  CASE g.t = "nil" -> JNull
    [] g.t = "string" -> JString(g.v)
    [] g.t = "[]interface{}" -> JArray([k \in DOMAIN g.v |-> jsonEncode(g.v[k])])
    [] g.t = "[]string" -> JArray([k \in DOMAIN g.v |-> JString(g.v[k])])
    [] g.t = "map[string]interface{}" -> JObject([k \in DOMAIN g.v |-> jsonEncode(g.v[k])])

\* Decode of a JSON array of strings into a []string.
jsonDecodeStrings(j) == [k \in DOMAIN j.v |-> j.v[k].v]

\* Log entries.  An entry is bytes that are not JSON, or the JSON of a
\* Command: type, shard_id, data.  Types 0..3 are the four commands.
MaxType == 4
ShardKeys == {"k1", "k2"}
IndexNames == {"ix1", "ix2"}
KeyLists == {<<>>, <<"k1">>, <<"k1", "k2">>}
AddShardCommand == 0
RemoveShardCommand == 1
UpdateShardCommand == 2
IndexDistributionCommand == 3

\* The data of an IndexDistribution command: {index_name, shards: [keys]}.
Distribution(name, keys) ==
  JObject([x \in {"index_name", "shards"} |->
             IF x = "index_name" THEN JString(name)
             ELSE JArray([k \in DOMAIN keys |-> JString(keys[k])])])

ShardData == {JNull, JObject([x \in {"key"} |-> JString("value")])}
LogData == ShardData \cup {Distribution(n, q) : n \in IndexNames, q \in KeyLists}
NotJSON == [valid |-> FALSE, type |-> 0, shard_id |-> "", data |-> JNull]
LogEntries ==
  {NotJSON} \cup [valid : {TRUE}, type : 0..MaxType, shard_id : ShardKeys, data : LogData]

\* A Go map with key k set to v, and with key k deleted.
MapSet(m, k, v) == [x \in (DOMAIN m) \cup {k} |-> IF x = k THEN v ELSE m[x]]
MapDelete(m, k) == [x \in (DOMAIN m) \ {k} |-> m[x]]
NoMap == [x \in {} |-> GoNil]

Returned(kind, text) == [kind |-> kind, text |-> text]

\* An Apply that stores the data under the shard key whatever the entry is.
ApplyCommandDefaultAdd(f, e) ==
  [shards |-> MapSet(f.shards, e.shard_id, jsonDecodeIface(e.data)),
   indexShards |-> f.indexShards,
   result |-> Returned("string", <<"shard", e.shard_id, "added">>)]

\* FSM.Apply on the maps f, for the log entry e.
ApplyCommand(f, e) ==
  LET same(r) == [shards |-> f.shards, indexShards |-> f.indexShards, result |-> r]
      Data == jsonDecodeIface(e.data)
  IN
  IF ~e.valid THEN same(Returned("error", <<"failed to unmarshal command">>))
  ELSE CASE e.type = AddShardCommand ->
              [shards |-> MapSet(f.shards, e.shard_id, Data), indexShards |-> f.indexShards,
               result |-> Returned("string", <<"shard", e.shard_id, "added">>)]
         [] e.type = RemoveShardCommand ->
              [shards |-> MapDelete(f.shards, e.shard_id), indexShards |-> f.indexShards,
               result |-> Returned("string", <<"shard", e.shard_id, "removed">>)]
         [] e.type = UpdateShardCommand ->
              [shards |-> MapSet(f.shards, e.shard_id, Data), indexShards |-> f.indexShards,
               result |-> Returned("string", <<"shard", e.shard_id, "updated">>)]
         [] e.type = IndexDistributionCommand ->
              IF /\ Data.t = "map[string]interface{}"
                 /\ "index_name" \in DOMAIN Data.v
                 /\ Data.v["index_name"].t = "string"
                 /\ "shards" \in DOMAIN Data.v
                 /\ Data.v["shards"].t = "[]string"
                THEN [shards |-> f.shards,
                      indexShards |-> MapSet(f.indexShards, Data.v["index_name"].v,
                                             Data.v["shards"].v),
                      result |-> Returned("string",
                                   <<"index", Data.v["index_name"].v, "distribution updated">>)]
                ELSE same(Returned("error", <<"invalid index distribution data">>))
         [] OTHER -> same(Returned("error", <<"unknown command type">>))

NoSnapshot == [taken |-> FALSE, shards |-> NoMap, indexShards |-> NoMap]
NoSink == [written |-> FALSE, json |-> JNull]

\* fsm: the two maps; the entry and the result of the last Apply (seq: its
\* parity); the FSMSnapshot held; the bytes in the sink; whether the maps
\* are those a Restore installed.
NewFSM ==
  [shards |-> NoMap, indexShards |-> NoMap,
   last |-> [entry |-> NotJSON, result |-> Returned("none", <<>>), seq |-> 0],
   snap |-> NoSnapshot, sink |-> NoSink, restored |-> FALSE]

\* FSM.Apply(log)
Apply(e) ==
  /\ LET r == ApplyCommand(fsm, e)
     IN fsm' = [fsm EXCEPT !.shards = r.shards, !.indexShards = r.indexShards,
                           !.last = [entry |-> e, result |-> r.result, seq |-> 1 - fsm.last.seq],
                           !.restored = FALSE]
  /\ UNCHANGED pxvars
  /\ UNCHANGED <<saver, sync, init, engine, search, corpus, manager>>

\* FSM.Snapshot(): a clone of both maps.
Snapshot ==
  /\ fsm' = [fsm EXCEPT !.snap = [taken |-> TRUE, shards |-> fsm.shards,
                                  indexShards |-> fsm.indexShards],
                        !.sink = NoSink]
  /\ fsm' # fsm
  /\ UNCHANGED pxvars
  /\ UNCHANGED <<saver, sync, init, engine, search, corpus, manager>>

\* What Persist writes for a snapshot that holds only the placement map.
PersistedShardsOnly(snap) == JObject([k \in DOMAIN snap.shards |-> jsonEncode(snap.shards[k])])

\* What FSMSnapshot.Persist writes: {"shards": ..., "index_shards": ...}.
Persisted(snap) ==
  JObject([x \in {"shards", "index_shards"} |->
     IF x = "shards"
       THEN JObject([k \in DOMAIN snap.shards |-> jsonEncode(snap.shards[k])])
       ELSE JObject([k \in DOMAIN snap.indexShards |->
                       jsonEncode(GoStringSlice(snap.indexShards[k]))])])

\* FSMSnapshot.Persist(sink): the encoding goes to the sink, which is closed;
\* when the write fails the sink is cancelled.
Persist(ok) ==
  /\ fsm.snap.taken /\ ~fsm.sink.written
  /\ ok
  /\ fsm' = [fsm EXCEPT !.sink = [written |-> TRUE, json |-> Persisted(fsm.snap)]]
  /\ UNCHANGED pxvars
  /\ UNCHANGED <<saver, sync, init, engine, search, corpus, manager>>

\* The maps FSM.Restore installs for the bytes of a snapshot; a field the
\* bytes lack leaves a nil map.
RestoreMaps(j) ==
  [shards |-> IF "shards" \in DOMAIN j
                THEN [k \in DOMAIN j["shards"].v |-> jsonDecodeIface(j["shards"].v[k])]
                ELSE NoMap,
   indexShards |-> IF "index_shards" \in DOMAIN j
                     THEN [k \in DOMAIN j["index_shards"].v |->
                             jsonDecodeStrings(j["index_shards"].v[k])]
                     ELSE NoMap]

\* FSM.Restore(rc): both maps are replaced by what the bytes decode to.
Restore ==
  /\ fsm.sink.written
  /\ LET newShards == RestoreMaps(fsm.sink.json.v).shards
         newIndexShards == RestoreMaps(fsm.sink.json.v).indexShards
     IN fsm' = [fsm EXCEPT !.shards = newShards, !.indexShards = newIndexShards,
                           !.restored = TRUE]
  /\ fsm' # fsm
  /\ UNCHANGED pxvars
  /\ UNCHANGED <<saver, sync, init, engine, search, corpus, manager>>

\* Two FSM instances, as two nodes hold them: raft hands each of them the
\* same committed entries in the same order, each at its own pace.  An
\* instance starts from NewFSM, or from the Restore of the snapshot base.
MaxLog == 3
Instances == {"a", "b"}

\* The snapshots instances are restored from.
TwinBases ==
  {[written |-> TRUE,
    json |-> Persisted([taken |-> TRUE, shards |-> sh, indexShards |-> ish])] :
     sh \in {NoMap, MapSet(NoMap, "k1", GoMap([x \in {"key"} |-> GoString("value")]))},
     ish \in {NoMap, MapSet(NoMap, "ix1", <<"k1">>)}}

\* The entries committed: bytes that are not JSON, adds, removes and updates
\* of both keys, one distribution command and one command of unknown type.
TwinEntries ==
  {e \in LogEntries :
     \/ ~e.valid
     \/ /\ e.type \in {AddShardCommand, RemoveShardCommand, UpdateShardCommand}
        /\ e.data = JObject([x \in {"key"} |-> JString("value")])
     \/ /\ e.type \in {IndexDistributionCommand, MaxType} /\ e.shard_id = "k1"
        /\ e.data = Distribution("ix1", <<"k1", "k2">>)}

NewInstance(base) ==
  IF base.written
    THEN [shards |-> RestoreMaps(base.json.v).shards,
          indexShards |-> RestoreMaps(base.json.v).indexShards,
          applied |-> 0, results |-> <<>>]
    ELSE [shards |-> NewFSM.shards, indexShards |-> NewFSM.indexShards,
          applied |-> 0, results |-> <<>>]

NewTwin(base) ==
  [log |-> <<>>, base |-> base, node |-> [x \in Instances |-> NewInstance(base)]]

\* raft commits an entry.
Commit(e) ==
  /\ Len(twin.log) < MaxLog
  /\ twin' = [twin EXCEPT !.log = Append(@, e)]
  /\ UNCHANGED butTwin

\* An Apply that stores, for an add, the instance's name as the data.
TwinApplyStampsNode(x) ==
  /\ twin.node[x].applied < Len(twin.log)
  /\ LET e == twin.log[twin.node[x].applied + 1]
         r == ApplyCommand(twin.node[x], e)
     IN twin' = [twin EXCEPT !.node[x] =
                   [shards |-> IF e.valid /\ e.type = AddShardCommand
                                 THEN MapSet(r.shards, e.shard_id, GoString(x))
                                 ELSE r.shards,
                    indexShards |-> r.indexShards,
                    applied |-> @.applied + 1, results |-> Append(@.results, r.result)]]
  /\ UNCHANGED butTwin

\* raft calls FSM.Apply of instance x with the next committed entry.
TwinApply(x) ==
  /\ twin.node[x].applied < Len(twin.log)
  /\ LET r == ApplyCommand(twin.node[x], twin.log[twin.node[x].applied + 1])
     IN twin' = [twin EXCEPT !.node[x] =
                   [shards |-> r.shards, indexShards |-> r.indexShards,
                    applied |-> @.applied + 1, results |-> Append(@.results, r.result)]]
  /\ UNCHANGED butTwin

(* ------------------------ cluster: the Manager ------------------------ *)
\* How far a Start gets: the step that fails, or "ok".  The directories, the
\* address, the transport, the stores and raft.NewRaft are the operating
\* system's and libraries' to grant or refuse; initializeSharding never
\* returns an error.
StartOutcomes ==
  {"raftdir", "datadir", "resolve", "transport", "logstore", "stablestore",
   "snapshotstore", "newraft", "ok"}

\* The error Start returns for the step that failed; "nil" for none.
StartError(o) ==
  CASE o = "raftdir" -> "failed to create raft directory"
    [] o = "datadir" -> "failed to create data directory"
    [] o = "resolve" -> "failed to setup raft: failed to resolve bind address"
    [] o = "transport" -> "failed to setup raft: failed to create raft transport"
    [] o = "logstore" -> "failed to setup raft: failed to create log store"
    [] o = "stablestore" -> "failed to setup raft: failed to create stable store"
    [] o = "snapshotstore" -> "failed to setup raft: failed to create snapshot store"
    [] o = "newraft" -> "failed to setup raft: failed to create raft"
    [] OTHER -> "nil"

\* The record of a call on the manager: the operation, what it returned, and
\* the parity of the number of calls.
ManagerCall(m, op, result) == [op |-> op, result |-> result, seq |-> 1 - m.last.seq]

\* manager: isRunning; which directories exist; m.raft ("nil", "running",
\* "shutdown"); whether the ring is set; whether the context was cancelled;
\* whether the leadership monitor is alive; the last call.
NewManager ==
  [isRunning |-> FALSE, raftDir |-> FALSE, dataDir |-> FALSE, raft |-> "nil",
   ring |-> FALSE, cancelled |-> FALSE, monitoring |-> FALSE,
   last |-> [op |-> "none", result |-> "nil", seq |-> 0]]

\* A Start that marks the manager running before it sets anything up.
StartOnEager(m, o) ==
  IF m.isRunning
    THEN [m EXCEPT !.last = ManagerCall(m, "start", "cluster manager is already running")]
    ELSE [m EXCEPT !.isRunning = TRUE,
                   !.raftDir = @ \/ o # "raftdir",
                   !.dataDir = @ \/ o \notin {"raftdir", "datadir"},
                   !.raft = IF o = "ok" THEN "running" ELSE IF o = "newraft" THEN "nil" ELSE @,
                   !.ring = @ \/ o = "ok",
                   !.monitoring = @ \/ (o = "ok" /\ ~m.cancelled),
                   !.last = ManagerCall(m, "start", StartError(o))]

\* Manager.Start on the manager m, getting as far as o.
StartOn(m, o) ==
  IF m.isRunning
    THEN [m EXCEPT !.last = ManagerCall(m, "start", "cluster manager is already running")]
    ELSE [m EXCEPT !.isRunning = (o = "ok"),
                   !.raftDir = @ \/ o # "raftdir",
                   !.dataDir = @ \/ o \notin {"raftdir", "datadir"},
                   !.raft = IF o = "ok" THEN "running" ELSE IF o = "newraft" THEN "nil" ELSE @,
                   !.ring = @ \/ o = "ok",
                   !.monitoring = @ \/ (o = "ok" /\ ~m.cancelled),
                   !.last = ManagerCall(m, "start", StartError(o))]

\* Manager.Start(): setupRaft installs a new FSM just before raft.NewRaft.
ManagerStart(o) ==
  /\ manager' = StartOn(manager, o)
  /\ fsm' = IF ~manager.isRunning /\ o \in {"newraft", "ok"} THEN NewFSM ELSE fsm
  /\ UNCHANGED pxvars
  /\ UNCHANGED <<saver, sync, init, engine, search, corpus>>

\* Manager.Stop(); ok: whether raft's Shutdown succeeds.
ManagerStop(ok) ==
  /\ manager' =
       IF ~manager.isRunning
         THEN [manager EXCEPT !.last = ManagerCall(manager, "stop", "nil")]
         ELSE IF manager.raft # "nil" /\ ~ok
           THEN [manager EXCEPT !.cancelled = TRUE, !.monitoring = FALSE,
                                !.last = ManagerCall(manager, "stop", "failed to shutdown raft")]
           ELSE [manager EXCEPT !.cancelled = TRUE, !.monitoring = FALSE,
                                !.raft = IF @ = "nil" THEN "nil" ELSE "shutdown",
                                !.isRunning = FALSE,
                                !.last = ManagerCall(manager, "stop", "nil")]
  /\ UNCHANGED pxvars
  /\ UNCHANGED <<saver, sync, init, engine, search, corpus, fsm>>

(* ---------------------- cluster: several nodes ------------------------ *)
\* The nodes, and the join_addr lists a node may be configured with.
Nodes == {"A", "B", "C"}
JoinAddrs == {<<>>, <<"A">>, <<"A", "B">>}

\* cluster: for every node, the state of its raft instance ("nil": not
\* created, "follower", "leader", "shutdown"), the configuration (servers)
\* its raft holds, the Manager's isLeader and isRunning, whether its
\* leadership ticker is alive, whether its context was cancelled, its
\* bootstrap and join_addr settings, the join address at which setupRaft
\* stopped (0: none succeeded); and the last JoinCluster RPC.
NoRPC == [at |-> "", node |-> "", message |-> "none", added |-> FALSE]

NewCluster(join) ==
  [raft |-> [n \in Nodes |-> "nil"],
   conf |-> [n \in Nodes |-> {}],
   isLeader |-> [n \in Nodes |-> FALSE],
   isRunning |-> [n \in Nodes |-> FALSE],
   monitoring |-> [n \in Nodes |-> FALSE],
   cancelled |-> [n \in Nodes |-> FALSE],
   bootstrap |-> [n \in Nodes |-> n = "A"],
   joinAddr |-> [n \in Nodes |-> IF n = "A" THEN <<>> ELSE join[n]],
   joined |-> [n \in Nodes |-> 0],
   rpc |-> NoRPC]

\* Whether the raft instance of n takes part in the protocol.
Alive(c, n) == c.raft[n] \in {"follower", "leader"}

\* raft.AddVoter on the instance of node l: refused unless l is the leader;
\* ok: whether the change then commits.
AddVoter(c, l, x, ok) == c.raft[l] = "leader" /\ ok

\* Manager.joinCluster(leaderAddr) on node n, just after raft.NewRaft: the
\* configuration asked is that of n's own raft, and the voter is added
\* through n's own raft; leaderAddr is not used.
joinCluster(c, n, leaderAddr) ==
  \/ n \in c.conf[n]
  \/ AddVoter(c, n, n, TRUE)

\* The position of the first join address whose joinCluster succeeds; 0 when
\* none does.
RECURSIVE JoinLoop(_, _, _)
JoinLoop(c, n, k) ==
  IF k > Len(c.joinAddr[n]) THEN 0
  ELSE IF joinCluster(c, n, c.joinAddr[n][k]) THEN k
  ELSE JoinLoop(c, n, k + 1)

\* Manager.Start() of node n, every step of it succeeding: raft is created
\* as a follower with the configuration its stores hold; bootstrap seeds the
\* configuration with the node itself when there is none; otherwise the join
\* addresses are tried; the ticker starts on the Manager's context.
NodeStart(n) ==
  /\ ~cluster.isRunning[n]
  /\ LET c == [cluster EXCEPT !.raft[n] = "follower"]
     IN cluster' =
          [c EXCEPT !.conf[n] = IF c.bootstrap[n] /\ @ = {} THEN {n} ELSE @,
                    !.joined[n] = IF c.bootstrap[n] THEN 0 ELSE JoinLoop(c, n, 1),
                    !.monitoring[n] = ~c.cancelled[n],
                    !.isRunning[n] = TRUE]
  /\ UNCHANGED butCluster

\* Manager.Stop() of node n, raft's Shutdown succeeding.
NodeStop(n) ==
  /\ cluster.isRunning[n]
  /\ cluster' = [cluster EXCEPT !.cancelled[n] = TRUE, !.monitoring[n] = FALSE,
                                !.raft[n] = "shutdown", !.isRunning[n] = FALSE]
  /\ UNCHANGED butCluster

\* The flag after one tick of monitorLeadership on node n.
Ticked(c, n) == c.raft[n] = "leader"

\* One tick of node n's monitorLeadership.
monitorLeadership(n) ==
  /\ cluster.monitoring[n]
  /\ cluster.isLeader[n] # Ticked(cluster, n)
  /\ cluster' = [cluster EXCEPT !.isLeader[n] = Ticked(cluster, n)]
  /\ UNCHANGED butCluster

\* raft: node n wins an election.  It is in its own configuration, a
\* majority of that configuration is alive, and no node is leader: the
\* library is taken at its best, with never two leaders at a time.
RaftElect(n) ==
  /\ cluster.raft[n] = "follower"
  /\ n \in cluster.conf[n]
  /\ \A m \in Nodes : cluster.raft[m] # "leader"
  /\ 2 * Cardinality({m \in cluster.conf[n] : Alive(cluster, m)}) > Cardinality(cluster.conf[n])
  /\ cluster' = [cluster EXCEPT !.raft[n] = "leader"]
  /\ UNCHANGED butCluster

\* raft: the leader n loses leadership.
RaftStepDown(n) ==
  /\ cluster.raft[n] = "leader"
  /\ cluster' = [cluster EXCEPT !.raft[n] = "follower"]
  /\ UNCHANGED butCluster

\* raft: the follower n receives the leader's configuration.
RaftReplicate(n) ==
  /\ cluster.raft[n] = "follower"
  /\ \E l \in Nodes :
       /\ cluster.raft[l] = "leader"
       /\ n \in cluster.conf[l]
       /\ cluster.conf[n] # cluster.conf[l]
       /\ cluster' = [cluster EXCEPT !.conf[n] = cluster.conf[l]]
  /\ UNCHANGED butCluster

\* Manager.AddNode(nodeID, addr) on node l: add_voter, for the leader only;
\* an error on any other node and when the change does not commit.
AddNodeOn(c, l, x, ok) ==
  IF AddVoter(c, l, x, ok) THEN [c EXCEPT !.conf[l] = @ \cup {x}] ELSE c

AddNode(l, x, ok) ==
  /\ cluster.isRunning[l]
  /\ x \notin cluster.conf[l]
  /\ cluster' = AddNodeOn(cluster, l, x, ok)
  /\ cluster' # cluster
  /\ UNCHANGED butCluster

\* The message of the JoinCluster response: AddNode's result is dropped.
JoinResponse(c, l, x, ok) == "successfully joined the cluster"

\* ClusterServiceServer.JoinCluster(req) served by node l for the node x.
JoinCluster(l, x, ok) ==
  /\ cluster.isRunning[l]
  /\ x \notin cluster.conf[l]
  /\ cluster' = [AddNodeOn(cluster, l, x, ok) EXCEPT
                   !.rpc = [at |-> l, node |-> x,
                            message |-> JoinResponse(cluster, l, x, ok),
                            added |-> AddVoter(cluster, l, x, ok)]]
  /\ UNCHANGED butCluster

(* ------------------------ cluster: shard lookup ----------------------- *)
\* Strings are sequences of characters.  The node_id settings followed: any
\* non-empty string is accepted by the configuration.
NodeIDs == {<<"n">>, <<"n", "1">>, <<"n", ":", "1">>, <<":", "n">>}
RingIndexes == {<<"a">>, <<"b">>}
MaxReplicas == 2
MaxRingShards == 2

\* The part of x before its first ":" (x itself when it has none):
\* strings.Split(x, ":")[0].
RECURSIVE SplitFirst(_)
SplitFirst(x) ==
  IF x = <<>> \/ Head(x) = ":" THEN <<>> ELSE <<Head(x)>> \o SplitFirst(Tail(x))

\* The ring key of a shard: "{node_id}:{index}:r{r}:s{s}".
NodeKey(id, index, r, s) == id \o <<":">> \o index \o <<":", "r", r, ":", "s", s>>

\* locator: the Manager's node ID, the configured indexes with their
\* (replicas, shards), the ring (built or not, and its node keys), and the
\* last lookup with what it returned.
NoLookup ==
  [op |-> "none", index |-> <<>>, node |-> <<>>, err |-> FALSE, responsible |-> FALSE]

NewLocator(id, dist) ==
  [nodeID |-> id, dist |-> dist, built |-> FALSE, ring |-> {}, last |-> NoLookup]

\* A count of replicas or shards, zero standing for one.
OneIfZero(x) == IF x = 0 THEN 1 ELSE x

\* Manager.initializeSharding(): the ring of the node keys of every replica
\* and shard of every configured index.
initializeSharding ==
  /\ ~locator.built
  /\ locator' =
       [locator EXCEPT
          !.built = TRUE,
          !.ring = UNION {{NodeKey(locator.nodeID, i, r, sh) :
                             r \in 0..(OneIfZero(locator.dist[i].replicas) - 1),
                             sh \in 0..(OneIfZero(locator.dist[i].shards) - 1)} :
                          i \in DOMAIN locator.dist}]
  /\ UNCHANGED butLocator

\* Manager.GetShardNode(indexName, key) where the ring, if it has nodes,
\* answers with its node key pick: the node ID and whether an error is
\* returned.
GetShardNodeOn(l, pick) ==
  IF ~l.built THEN [node |-> l.nodeID, err |-> FALSE]
  ELSE IF l.ring = {} THEN [node |-> <<>>, err |-> TRUE]
  ELSE [node |-> SplitFirst(pick), err |-> FALSE]

\* The hash ring is a library: which of its nodes it returns for a key is
\* its choice.
Picks(l) == IF l.ring = {} THEN {<<>>} ELSE l.ring

GetShardNode(index) ==
  /\ \E pick \in Picks(locator) :
       LET r == GetShardNodeOn(locator, pick)
       IN locator' = [locator EXCEPT !.last = [op |-> "GetShardNode", index |-> index,
                                               node |-> r.node, err |-> r.err,
                                               responsible |-> FALSE]]
  /\ UNCHANGED butLocator

\* Manager.IsResponsibleForShard(indexName, key)
IsResponsibleForShard(index) ==
  /\ \E pick \in Picks(locator) :
       LET r == GetShardNodeOn(locator, pick)
       IN locator' = [locator EXCEPT !.last = [op |-> "IsResponsibleForShard", index |-> index,
                                               node |-> r.node, err |-> r.err,
                                               responsible |-> r.err \/ r.node = locator.nodeID]]
  /\ UNCHANGED butLocator

(* ------------------- sync-state store: the pointers ------------------- *)
\* Collections maps a key to a *CollectionState.  Addresses are 1..MaxAddrs,
\* 0 is nil.
MaxAddrs == 3
Addrs == 1..MaxAddrs
\* The collection key the calls are about.
HeapKeys == {"db.c"}

\* heap: the CollectionState at every address in use (NoState: not in use);
\* sm.state.Collections, key -> address; the pointer a caller holds and how
\* it got it ("get": returned by GetCollectionState, "getall": an element of
\* the map GetAllCollectionStates returned, "update": passed to
\* UpdateCollectionState); the last call.
NewHeap ==
  [cells |-> [a \in Addrs |-> NoState], coll |-> [k \in HeapKeys |-> 0], held |-> 0,
   how |-> "none", op |-> "none"]

\* The addresses nothing points to any more: the collector's.
Free(h) == {a \in Addrs : a # h.held /\ \A k \in HeapKeys : h.coll[k] # a}

\* &CollectionState{...}: a fresh address.
Alloc(h) == CHOOSE a \in Free(h) : \A b \in Free(h) : a <= b

\* The heap with the cells nothing points to given back.
Collected(h) == [h EXCEPT !.cells = [a \in Addrs |-> IF a \in Free(h) THEN NoState ELSE @[a]]]

\* What the store holds, key by key.
Contents(h) == [k \in HeapKeys |-> IF h.coll[k] = 0 THEN NoState ELSE h.cells[h.coll[k]]]

\* A targeted setter: through the pointer of the entry when the key exists,
\* else a new entry with the key and the field.
TargetedSet(h, k, op, field, v) ==
  IF h.coll[k] # 0
    THEN [h EXCEPT !.cells[h.coll[k]][field] = v, !.op = op]
    ELSE [h EXCEPT !.cells[Alloc(h)] = [EmptyCollectionState(k) EXCEPT ![field] = v],
                   !.coll[k] = Alloc(h), !.op = op]

\* sm.SetLastPollTime(k, t)
CallSetLastPollTime(k, t) ==
  /\ Free(heap) # {}
  /\ heap' = TargetedSet(heap, k, "SetLastPollTime", "lpt", t)
  /\ UNCHANGED butHeap

\* sm.SetLastSyncTime(k, t)
CallSetLastSyncTime(k, t) ==
  /\ Free(heap) # {}
  /\ heap' = TargetedSet(heap, k, "SetLastSyncTime", "lst", t)
  /\ UNCHANGED butHeap

\* sm.IncrementDocumentsIndexed(k, n)
CallIncrementDocumentsIndexed(k, n) ==
  /\ Free(heap) # {}
  /\ heap.coll[k] # 0 => heap.cells[heap.coll[k]].docsIndexed + n <= MaxBatch
  /\ LET old == IF heap.coll[k] # 0 THEN heap.cells[heap.coll[k]].docsIndexed ELSE 0
     IN heap' = TargetedSet(heap, k, "IncrementDocumentsIndexed", "docsIndexed", old + n)
  /\ UNCHANGED butHeap

\* state := &CollectionState{...}; sm.UpdateCollectionState(k, state): the
\* map keeps the pointer it is given, and the caller keeps it too.
CallUpdateCollectionState(k, t) ==
  /\ Free(heap) # {}
  /\ LET a == Alloc(heap)
     IN heap' = Collected([heap EXCEPT !.cells[a] = NewCollectionState("i1", t),
                                       !.coll[k] = a, !.held = a, !.how = "update",
                                       !.op = "UpdateCollectionState"])
  /\ UNCHANGED butHeap

\* p := sm.GetCollectionState(k): the pointer in the map, or nil.
CallGetCollectionState(k) ==
  /\ heap' = Collected([heap EXCEPT !.held = heap.coll[k],
                                    !.how = IF heap.coll[k] = 0 THEN "none" ELSE "get",
                                    !.op = "GetCollectionState"])
  /\ UNCHANGED butHeap

\* p := sm.GetAllCollectionStates()[k]: a pointer to a copy of the entry.
CallGetAllCollectionStates(k) ==
  /\ Free([heap EXCEPT !.held = 0]) # {}
  /\ LET h == [heap EXCEPT !.held = 0]
         a == Alloc(h)
     IN heap' = IF heap.coll[k] = 0
                  THEN Collected([h EXCEPT !.how = "none", !.op = "GetAllCollectionStates"])
                  ELSE Collected([h EXCEPT !.cells[a] = heap.cells[heap.coll[k]],
                                           !.held = a, !.how = "getall",
                                           !.op = "GetAllCollectionStates"])
  /\ UNCHANGED butHeap

\* p.DocumentsIndexed = n, by the caller that holds p.
CallerWrite(n) ==
  /\ heap.held # 0
  /\ heap' = [heap EXCEPT !.cells[heap.held].docsIndexed = n, !.op = "write"]
  /\ UNCHANGED butHeap

(* ---------------- sync-state store: concurrent callers ---------------- *)
\* The goroutines that call the StateManager, and the calls each makes.
Goroutines == {"g1", "g2"}
MaxOps == 2
StoreOps == {"SetLastPollTime", "IncrementDocumentsIndexed", "GetCollectionState"}

\* A mutex that makes nobody wait.
CanLockAtOnce(s, op) == TRUE

\* Whether sm.mutex can be taken now: Lock() waits for the writer and the
\* readers to leave, RLock() for the writer.
CanLock(s, op) ==
  IF op = "GetCollectionState" THEN s.writer = "none"
  ELSE s.writer = "none" /\ s.readers = {}

\* store: Collections by value; who holds sm.mutex; every goroutine's
\* position in its call with its arguments and locals (exists, and the
\* counter read by '+='); the sum of the increments of the calls so far, per
\* key; the last entry a setter created.
NoCall ==
  [pc |-> "idle", op |-> "none", key |-> "", arg |-> 0, exists |-> FALSE, val |-> 0,
   ops |-> 0]

NoCreated == [by |-> "none", key |-> "", arg |-> 0, entry |-> NoState]

NewStore ==
  [coll |-> EmptyStore, writer |-> "none", readers |-> {},
   g |-> [x \in Goroutines |-> NoCall], applied |-> [k \in Keys |-> 0],
   created |-> NoCreated]

\* sm.mutex.Lock() or RLock() at the head of a call.
Lock(x, op, k, n) ==
  /\ store.g[x].pc = "idle"
  /\ store.g[x].ops < MaxOps
  /\ CanLock(store, op)
  /\ store' = [store EXCEPT
                 !.writer = IF op = "GetCollectionState" THEN @ ELSE x,
                 !.readers = IF op = "GetCollectionState" THEN @ \cup {x} ELSE @,
                 !.g[x] = [NoCall EXCEPT !.pc = "locked", !.op = op, !.key = k, !.arg = n,
                                         !.ops = store.g[x].ops]]
  /\ UNCHANGED butStore

\* state, exists := sm.state.Collections[collectionKey], and the read of the
\* counter that '+=' starts with.
Lookup(x) ==
  /\ store.g[x].pc = "locked"
  /\ LET e == store.coll[store.g[x].key]
     IN store' = [store EXCEPT !.g[x].pc = "found", !.g[x].exists = e.exists,
                               !.g[x].val = IF e.exists THEN e.docsIndexed ELSE 0]
  /\ UNCHANGED butStore

\* The branch taken on exists: the field written through the pointer, or the
\* new entry put in the map; GetCollectionState returns.
Store(x) ==
  /\ store.g[x].pc = "found"
  /\ LET c == store.g[x]
         k == c.key
         new == IF c.op = "SetLastPollTime"
                  THEN [EmptyCollectionState(k) EXCEPT !.lpt = c.arg]
                  ELSE [EmptyCollectionState(k) EXCEPT !.docsIndexed = c.arg]
     IN CASE c.op = "GetCollectionState" -> store' = [store EXCEPT !.g[x].pc = "done"]
          [] c.op # "GetCollectionState" /\ ~c.exists ->
               store' = [store EXCEPT !.coll[k] = new, !.g[x].pc = "done",
                                      !.created = [by |-> c.op, key |-> k, arg |-> c.arg,
                                                   entry |-> new]]
          [] c.op = "SetLastPollTime" /\ c.exists ->
               store' = [store EXCEPT !.coll[k] = IF @.exists THEN [@ EXCEPT !.lpt = c.arg]
                                                  ELSE @,
                                      !.g[x].pc = "done"]
          [] c.op = "IncrementDocumentsIndexed" /\ c.exists ->
               store' = [store EXCEPT !.coll[k] = IF @.exists
                                                    THEN [@ EXCEPT !.docsIndexed = c.val + c.arg]
                                                    ELSE @,
                                      !.g[x].pc = "done"]
  /\ UNCHANGED butStore

\* defer sm.mutex.Unlock() / RUnlock(): the call returns.
Unlock(x) ==
  /\ store.g[x].pc = "done"
  /\ LET c == store.g[x]
     IN store' = [store EXCEPT
                    !.writer = IF @ = x THEN "none" ELSE @,
                    !.readers = @ \ {x},
                    !.applied[c.key] = IF c.op = "IncrementDocumentsIndexed" THEN @ + c.arg
                                       ELSE @,
                    !.g[x] = [c EXCEPT !.pc = "idle", !.ops = @ + 1]]
  /\ UNCHANGED butStore

(* ------------------ the poll tick, document by document --------------- *)
\* The documents of the source collection as one poller's ticks see them:
\* the value the server filters and sorts the timestamp field by, whether
\* ParseTimestamp accepts the value the cursor yields for it (an array that
\* holds a date matches the filter and is no type ParseTimestamp knows),
\* and whether the document has the configured id_field.
MaxTickDocs == 2
MaxTickTs == 2
MaxClock == 2
TickDocs == 1..MaxTickDocs
TickSources == [TickDocs -> [ts : 1..MaxTickTs, parse : BOOLEAN, hasId : BOOLEAN]]

\* FindDocumentsSince on such a source: the documents above since in
\* ascending order, at most limit of them.
RECURSIVE Ascending(_, _)
Ascending(S, src) ==
  IF S = {} THEN {<<>>}
  ELSE UNION {{<<d>> \o q : q \in Ascending(S \ {d}, src)} :
              d \in {x \in S : \A y \in S : src[x].ts <= src[y].ts}}

FindSince(src, since, limit) ==
  {SubSeq(q, 1, Min(limit, Len(q))) : q \in Ascending({d \in TickDocs : src[d].ts > since}, src)}

\* tick: the source and batch_size; the collection's last_poll_time,
\* documents_indexed and last_sync_time; the wall clock; the stop channel;
\* the documents in the index; the poller's position with the locals of
\* performPoll; of the tick in progress or last ended: the stored values
\* when it began, the documents its cursor yielded and those it wrote, and
\* how it ended; the last values a reader or a Save took from the store.
NewTick(src, b) ==
  [src |-> src, batchSize |-> b, lpt |-> 0, docs |-> 0, lst |-> 0, now |-> 1,
   stopCh |-> FALSE, index |-> {},
   pc |-> "select", res |-> <<>>, pos |-> 1, newest |-> 0, count |-> 0, batch |-> <<>>,
   pre |-> [lpt |-> 0, docs |-> 0], seen |-> {}, wrote |-> {}, ended |-> "none",
   obs |-> [taken |-> FALSE, lpt |-> 0, docs |-> 0, pre |-> [lpt |-> 0, docs |-> 0]]]

\* The tick returns: back to the select of pollForChanges.
TickReturns(t, how) ==
  [t EXCEPT !.pc = "select", !.ended = how, !.res = <<>>, !.pos = 1, !.batch = <<>>]

\* pollForChanges takes the ticker's case; performPoll reads the collection
\* state and asks the source.  A failed query makes performPoll return.
pollQuery(mayFail) ==
  /\ tick.pc = "select"
  /\ tick.docs + tick.batchSize <= MaxTickDocs * MaxClock
  /\ LET t == [tick EXCEPT !.now = 1 + (@ % MaxClock),
                           !.pre = [lpt |-> tick.lpt, docs |-> tick.docs],
                           !.seen = {}, !.wrote = {}, !.ended = "none",
                           !.newest = tick.lpt, !.count = 0]
     IN \/ /\ mayFail
           /\ tick' = TickReturns(t, "query failed")
        \/ \E r \in FindSince(tick.src, tick.lpt, tick.batchSize) :
             tick' = [t EXCEPT !.pc = IF Len(r) = 0 THEN "rest" ELSE "loop",
                               !.res = r, !.pos = 1, !.batch = <<>>]
  /\ UNCHANGED butTick

\* One turn of the cursor loop: the newest timestamp is raised when the
\* value parses; a document without id_field is left out by 'continue'; the
\* others are appended and counted, a full batch is indexed, and the stop
\* channel is looked at.
pollCursorNext ==
  /\ tick.pc = "loop"
  /\ LET d == tick.res[tick.pos]
         e == tick.src[d]
         newest == IF e.parse /\ e.ts > tick.newest THEN e.ts ELSE tick.newest
         b == Append(tick.batch, d)
         full == Len(b) >= tick.batchSize
         more == IF tick.pos = Len(tick.res) THEN "rest" ELSE "loop"
         t == [tick EXCEPT !.newest = newest, !.seen = @ \cup {d}, !.pos = @ + 1,
                           !.pc = more]
     IN IF ~e.hasId THEN tick' = t
        ELSE LET u == [t EXCEPT !.batch = IF full THEN <<>> ELSE b,
                                !.count = @ + 1,
                                !.index = IF full THEN @ \cup Range(b) ELSE @,
                                !.wrote = IF full THEN @ \cup Range(b) ELSE @]
             IN tick' = IF tick.stopCh THEN TickReturns(u, "stopped") ELSE u
  /\ UNCHANGED butTick

\* After the loop: index what is left in the batch.
pollIndexRemaining ==
  /\ tick.pc = "rest"
  /\ tick' = [tick EXCEPT !.pc = "commit", !.batch = <<>>,
                          !.index = @ \cup Range(tick.batch),
                          !.wrote = @ \cup Range(tick.batch)]
  /\ UNCHANGED butTick

\* if count > 0 { SetLastPollTime(collectionKey, newestTimestamp)
pollSetLastPollTime ==
  /\ tick.pc = "commit"
  /\ tick' = IF tick.count > 0 THEN [tick EXCEPT !.lpt = tick.newest, !.pc = "incr"]
             ELSE [tick EXCEPT !.pc = "sync"]
  /\ UNCHANGED butTick

\* IncrementDocumentsIndexed(collectionKey, count) }
pollIncrementDocumentsIndexed ==
  /\ tick.pc = "incr"
  /\ tick' = [tick EXCEPT !.docs = @ + tick.count, !.pc = "sync"]
  /\ UNCHANGED butTick

\* SetLastSyncTime(collectionKey, time.Now()), and performPoll returns.
pollSetLastSyncTime ==
  /\ tick.pc = "sync"
  /\ tick' = TickReturns([tick EXCEPT !.lst = tick.now], "done")
  /\ UNCHANGED butTick

\* pollForChanges takes the stop channel's case.
pollSelectStop ==
  /\ tick.pc = "select" /\ tick.stopCh
  /\ tick' = [tick EXCEPT !.pc = "stopped"]
  /\ UNCHANGED butTick

\* Service.Stop: close(s.stopCh).
CloseStopCh ==
  /\ ~tick.stopCh
  /\ tick' = [tick EXCEPT !.stopCh = TRUE]
  /\ UNCHANGED butTick

\* A reader (GetAllCollectionStates) or a Save takes the store's lock between
\* two calls of the poller and copies the entry.
Observe ==
  /\ tick' = [tick EXCEPT !.obs = [taken |-> TRUE, lpt |-> tick.lpt, docs |-> tick.docs,
                                   pre |-> tick.pre]]
  /\ UNCHANGED butTick

(* ------------------------ Service.Start and Stop ----------------------- *)
\* The goroutines Service.Start launches for one index: the periodic saver,
\* the initial indexer, the poller and the flush routine.  The three with a
\* ticker wait in a select on the ticker and the stop channel.
Tickers == {"saver", "poller", "flush"}
MaxScan == 2

\* svc: the stop channel; where Service.Stop stands; where each ticker task
\* stands ("select", "tick": in the ticker's case, "returned"); the initial
\* indexer (the documents its cursor still holds, or "returned"); the tasks
\* that took the ticker's case with the stop channel already closed; the
\* number of tasks that had not returned when the final Save of Stop ran
\* (-1: it has not run).
NewService(n) ==
  [stopCh |-> FALSE, stop |-> "none", task |-> [t \in Tickers |-> "select"],
   scan |-> [pc |-> "loop", left |-> n], late |-> {}, finalSave |-> -1]

\* The tasks that have not returned.
Running(v) ==
  Cardinality({t \in Tickers : v.task[t] # "returned"})
    + (IF v.scan.pc # "returned" THEN 1 ELSE 0)

\* Service.Stop: close(s.stopCh), and s.wg.Wait() begins.
StopClose ==
  /\ svc.stop = "none"
  /\ svc' = [svc EXCEPT !.stopCh = TRUE, !.stop = "wait"]
  /\ UNCHANGED butSvc

\* A Stop that does not wait for the tasks.
StopNoWait ==
  /\ svc.stop = "wait"
  /\ svc' = [svc EXCEPT !.stop = "save"]
  /\ UNCHANGED butSvc

\* Service.Stop: s.wg.Wait() returns when every task has called wg.Done().
StopWait ==
  /\ svc.stop = "wait"
  /\ Running(svc) = 0
  /\ svc' = [svc EXCEPT !.stop = "save"]
  /\ UNCHANGED butSvc

\* Service.Stop: the final Save, and Stop returns.
StopSave ==
  /\ svc.stop = "save"
  /\ svc' = [svc EXCEPT !.stop = "returned", !.finalSave = Running(svc)]
  /\ UNCHANGED butSvc

\* select takes 'case <-ticker.C' (the tick is ready whenever the runtime
\* says so): with the stop channel closed too, select chooses one of its
\* ready cases, and this is one of them.
SelectTicker(t) ==
  /\ svc.task[t] = "select"
  /\ svc' = [svc EXCEPT !.task[t] = "tick",
                        !.late = IF svc.stopCh THEN @ \cup {t} ELSE @]
  /\ UNCHANGED butSvc

\* The ticker's case ends (performPoll, the flush log line, the periodic
\* Save) and the loop is back at its select.
TickEnds(t) ==
  /\ svc.task[t] = "tick"
  /\ svc' = [svc EXCEPT !.task[t] = "select"]
  /\ UNCHANGED butSvc

\* select takes 'case <-s.stopCh' and the task returns (the saver after one
\* more Save): wg.Done().
SelectStop(t) ==
  /\ svc.task[t] = "select" /\ svc.stopCh
  /\ svc' = [svc EXCEPT !.task[t] = "returned"]
  /\ UNCHANGED butSvc

\* performInitialIndexing: one turn of the cursor loop, with its look at the
\* stop channel at the end.
ScanTurn ==
  /\ svc.scan.pc = "loop" /\ svc.scan.left > 0
  /\ svc' = [svc EXCEPT !.scan = IF svc.stopCh THEN [pc |-> "returned", left |-> @.left - 1]
                                 ELSE [@ EXCEPT !.left = @ - 1]]
  /\ UNCHANGED butSvc

\* performInitialIndexing: the cursor is exhausted; the remaining documents
\* are indexed and the task returns.
ScanRest ==
  /\ svc.scan.pc = "loop" /\ svc.scan.left = 0
  /\ svc' = [svc EXCEPT !.scan.pc = "returned"]
  /\ UNCHANGED butSvc

(* ------------------------ engine: the two locks ----------------------- *)
\* Engine.mutex guards the name map, Engine.syncMutex the sync times.  Each
\* exported operation is the sequence of lock calls it makes; n is the number
\* of map keys its loop visits (for RemoveIndex: whether the name is a key).
MaxCalls == 2
MaxKeys == 2
EngineOps ==
  {"CreateIndex", "RemoveIndex", "CleanupIndexes", "ListIndexes", "IndexDocument",
   "IndexDocuments", "Search", "SearchSharded", "UpdateLastSync", "Close"}

RECURSIVE Times(_, _)
Times(q, n) == IF n = 0 THEN <<>> ELSE q \o Times(q, n - 1)

\* e.mutex.Lock(); defer e.mutex.Unlock(), around index creation.
ProgCreateIndex == << <<"mutex", "Lock">>, <<"mutex", "Unlock">> >>

\* RemoveIndex and removeIndexInternal: the sync time is deleted under
\* syncMutex while mutex is held; a name that is not a key returns before.
ProgRemoveIndex(n) ==
  IF n = 0 THEN << <<"mutex", "Lock">>, <<"mutex", "Unlock">> >>
  ELSE << <<"mutex", "Lock">>, <<"syncMutex", "Lock">>, <<"syncMutex", "Unlock">>,
          <<"mutex", "Unlock">> >>

\* A CleanupIndexes that calls removeIndexInternal inside its read-locked
\* scan of the map.
ProgCleanupIndexesInsideScan(n) ==
  << <<"mutex", "RLock">> >> \o Times(ProgRemoveIndex(1), n) \o << <<"mutex", "RUnlock">> >>

\* CleanupIndexes: the names are collected under the read lock, the lock is
\* released, then each name is removed by removeIndexInternal.
ProgCleanupIndexes(n) ==
  << <<"mutex", "RLock">>, <<"mutex", "RUnlock">> >> \o Times(ProgRemoveIndex(1), n)

\* ListIndexes: under the read lock of mutex, the sync time of every key is
\* read under the read lock of syncMutex.
ProgListIndexes(n) ==
  << <<"mutex", "RLock">> >>
    \o Times(<< <<"syncMutex", "RLock">>, <<"syncMutex", "RUnlock">> >>, n)
    \o << <<"mutex", "RUnlock">> >>

\* The map lookup of Search, IndexDocuments, getShardForDocument and
\* getShardsForIndex.
ProgLookup == << <<"mutex", "RLock">>, <<"mutex", "RUnlock">> >>

\* SearchSharded: getShardsForIndex, then one Search per shard found (the
\* direct Search when none is); the searches run in goroutines of their own
\* that hold nothing of the caller's, who waits for them holding no lock.
ProgSearchSharded(n) == ProgLookup \o Times(ProgLookup, IF n = 0 THEN 1 ELSE n)

ProgUpdateLastSync == << <<"syncMutex", "Lock">>, <<"syncMutex", "Unlock">> >>

Program(op, n) ==
  CASE op = "CreateIndex" -> ProgCreateIndex
    [] op = "RemoveIndex" -> ProgRemoveIndex(n)
    [] op = "CleanupIndexes" -> ProgCleanupIndexes(n)
    [] op = "ListIndexes" -> ProgListIndexes(n)
    [] op = "IndexDocument" -> ProgLookup \o ProgLookup
    [] op = "SearchSharded" -> ProgSearchSharded(n)
    [] op = "UpdateLastSync" -> ProgUpdateLastSync
    [] op = "Close" -> ProgCreateIndex
    [] OTHER -> ProgLookup

\* sync.RWMutex: w the goroutine whose Lock call is pending or holds the
\* lock, held whether it holds it, r the number of read holders.  A pending
\* Lock keeps new readers out.
NewRWMutex == [w |-> "none", held |-> FALSE, r |-> 0]

\* A goroutine: the operation it is in, the lock calls of it, the position
\* in them, the locks it holds in the order taken, the calls made so far.
NoEngineCall == [op |-> "none", prog |-> <<>>, pc |-> 1, held |-> <<>>, calls |-> 0]

NewLocks ==
  [mutex |-> NewRWMutex, syncMutex |-> NewRWMutex,
   g |-> [c \in Goroutines |-> NoEngineCall]]

\* The lock call a goroutine is at (<<"none", "none">>: between operations).
AtCall(c) ==
  IF locks.g[c].pc > Len(locks.g[c].prog) THEN <<"none", "none">>
  ELSE locks.g[c].prog[locks.g[c].pc]

Without(q, mu) == SelectSeq(q, LAMBDA x : x # mu)

\* A goroutine enters an engine operation.
EngineCall(c, op, n) ==
  /\ AtCall(c) = <<"none", "none">>
  /\ locks.g[c].calls < MaxCalls
  /\ locks' = [locks EXCEPT !.g[c] = [op |-> op, prog |-> Program(op, n), pc |-> 1,
                                      held |-> <<>>, calls |-> @.calls + 1]]
  /\ UNCHANGED butLocks

\* rw.Lock(), first half: the writer announces itself once no other writer
\* is pending or holding.
LockPending(c) ==
  /\ AtCall(c)[2] = "Lock"
  /\ locks[AtCall(c)[1]].w = "none"
  /\ locks' = [locks EXCEPT ![AtCall(c)[1]].w = c]
  /\ UNCHANGED butLocks

\* rw.Lock(), second half: the announced writer holds the lock once the
\* readers have left.
LockAcquire(c) ==
  /\ AtCall(c)[2] = "Lock"
  /\ locks[AtCall(c)[1]].w = c /\ ~locks[AtCall(c)[1]].held
  /\ locks[AtCall(c)[1]].r = 0
  /\ locks' = [locks EXCEPT ![AtCall(c)[1]].held = TRUE,
                            !.g[c].held = Append(@, AtCall(c)[1]),
                            !.g[c].pc = @ + 1]
  /\ UNCHANGED butLocks

\* rw.RLock(): enters when no writer is pending or holding.
RLock(c) ==
  /\ AtCall(c)[2] = "RLock"
  /\ locks[AtCall(c)[1]].w = "none"
  /\ locks' = [locks EXCEPT ![AtCall(c)[1]].r = @ + 1,
                            !.g[c].held = Append(@, AtCall(c)[1]),
                            !.g[c].pc = @ + 1]
  /\ UNCHANGED butLocks

\* rw.Unlock() and rw.RUnlock().
Release(c) ==
  /\ AtCall(c)[2] \in {"Unlock", "RUnlock"}
  /\ locks' = [locks EXCEPT
                 ![AtCall(c)[1]] = IF AtCall(c)[2] = "Unlock" THEN NewRWMutex
                                   ELSE [@ EXCEPT !.r = @ - 1],
                 !.g[c].held = Without(@, AtCall(c)[1]),
                 !.g[c].pc = @ + 1]
  /\ UNCHANGED butLocks

\* The goroutine can take its next step.
CanStep(c) ==
  LET a == AtCall(c) IN
  CASE a[2] = "Lock" -> \/ locks[a[1]].w = "none"
                        \/ (locks[a[1]].w = c /\ ~locks[a[1]].held /\ locks[a[1]].r = 0)
    [] a[2] = "RLock" -> locks[a[1]].w = "none"
    [] OTHER -> TRUE

(* ----------------------------- the HTTP API --------------------------- *)
\* Requests: the method, the route, the index named in a search route, the
\* Basic credential carried, and the query of a search body.
Methods == {"GET", "POST", "OPTIONS"}
Routes == {"/health", "/indexes", "/indexes/{index}/search"}
Credentials == {"none", "wrong", "valid"}

\* What a sub-key of a query object holds: a string, nothing, or a value of
\* another JSON type.
SubKeys == {"string", "missing", "number"}

\* Query objects by their first recognised key ("none": the empty object or
\* no query at all; "other": only keys that are not recognised), with the
\* 'value' (for text: 'query') and 'path' sub-keys.
Queries ==
  [kind : {"term", "wildcard", "text"}, value : SubKeys, path : SubKeys]
    \cup [kind : {"match_all", "none", "other"}, value : {"missing"}, path : {"missing"}]

\* The index names requests are addressed to: a configured one and one that
\* is not configured.
RequestNames == {NameA, NameAB}

\* Search requests carry an index name and a query; the other routes do not.
Requests ==
  [method : Methods, route : {"/indexes/{index}/search"}, index : RequestNames,
   creds : Credentials, query : Queries]
    \cup [method : Methods, route : Routes \ {"/indexes/{index}/search"},
          index : {<<>>}, creds : Credentials,
          query : {[kind |-> "none", value |-> "missing", path |-> "missing"]}]

\* x.(string) on the value of a sub-key: a single-value type assertion on
\* anything but a string panics, on a missing key too.
AssertString(x) == x = "string"

\* Engine.convertQuery: the bleve query built, or a panic; no path of it
\* returns an error for these queries.
convertQuery(q) ==
  CASE q.kind \in {"term", "wildcard"} ->
         IF AssertString(q.value) /\ AssertString(q.path)
           THEN [outcome |-> "query", bleve |-> q.kind]
           ELSE [outcome |-> "panic", bleve |-> "none"]
    [] q.kind = "text" ->
         IF ~AssertString(q.value) THEN [outcome |-> "panic", bleve |-> "none"]
         ELSE IF q.path = "missing" THEN [outcome |-> "query", bleve |-> "query_string"]
         ELSE IF AssertString(q.path) THEN [outcome |-> "query", bleve |-> "match"]
         ELSE [outcome |-> "panic", bleve |-> "none"]
    [] OTHER -> [outcome |-> "query", bleve |-> "match_all"]

\* Engine.Search(req) on the open indexes ixs: the index is looked up under
\* the name given, the query is converted, the one index is searched.
EngineSearch(ixs, index, q) ==
  IF index \notin ixs THEN [outcome |-> "not found", bleve |-> "none"]
  ELSE convertQuery(q)

\* Server.indexExists: a name ListIndexes returns, which are the map keys.
indexExists(ixs, index) == index \in ixs

NoResponse ==
  [status |-> 0, wwwAuthenticate |-> FALSE, handler |-> FALSE, path |-> "none",
   bleve |-> "none"]

Responded(status, path, bleve) ==
  [status |-> status, wwwAuthenticate |-> FALSE, handler |-> TRUE, path |-> path,
   bleve |-> bleve]

\* Server.handleSearch with a well-formed body.  A panic of the handler
\* unwinds to net/http, which closes the connection: no status is written.
handleSearch(ixs, req) ==
  IF ~indexExists(ixs, req.index) THEN Responded(404, "none", "none")
  ELSE LET r == EngineSearch(ixs, req.index, req.query)
       IN CASE r.outcome = "not found" -> Responded(404, "direct", "none")
            [] r.outcome = "error" -> Responded(400, "direct", "none")
            [] r.outcome = "panic" -> [NoResponse EXCEPT !.handler = TRUE, !.path = "direct"]
            [] OTHER -> Responded(200, "direct", r.bleve)

\* The method a route is registered with.
RouteMethod(route) == IF route = "/indexes/{index}/search" THEN "POST" ELSE "GET"

\* Server.Router(): corsMiddleware answers OPTIONS itself,
\* methodNotAllowedMiddleware passes everything on, chi answers 405 for a
\* method the route is not registered with, and the handler of the route
\* runs.  a: whether a user name and a password are configured.
Router(a, ixs, req) ==
  IF req.method = "OPTIONS" THEN [NoResponse EXCEPT !.status = 200]
  ELSE IF req.method # RouteMethod(req.route) THEN [NoResponse EXCEPT !.status = 405]
  ELSE IF req.route = "/indexes/{index}/search" THEN handleSearch(ixs, req)
  ELSE Responded(200, "none", "none")

\* api: whether credentials are configured; the last request with its
\* response, the shard count the index of the request is configured with,
\* and whether all its physical indexes were open.
NoRequest ==
  [method |-> "none", route |-> "none", index |-> <<>>, creds |-> "none",
   query |-> [kind |-> "none", value |-> "missing", path |-> "missing"]]

NewAPI(a) ==
  [auth |-> a, last |-> [req |-> NoRequest, resp |-> NoResponse, shards |-> 0,
                         present |-> FALSE]]

\* One request through the router.
ServeHTTP(req) ==
  /\ api' = [api EXCEPT !.last =
               [req |-> req, resp |-> Router(api.auth, engine.indexes, req),
                shards |-> IF req.index \in LogicalNames THEN engine.shards[req.index]
                           ELSE 0,
                present |-> /\ req.index \in LogicalNames
                            /\ engine.shards[req.index] > 0
                            /\ PhysicalNames(req.index, engine.shards[req.index])
                                  \subseteq engine.indexes]]
  /\ UNCHANGED butApi

(* ------------------------ the server process -------------------------- *)
\* The tasks Service.Start launched for an index, and the flush routine; the
\* periodic saver is followed apart, it listens to stopCh only.
Tasks == {"initial", "poller", "flush"}
MaxSaves == 1

\* server: where runServer stands; the events of the process so far, in
\* order; the pipeline tasks that have not returned; whether cluster mode is
\* enabled; the number of periodic saves so far.
NewServer(enabled) ==
  [pc |-> "serving", log |-> <<>>, tasks |-> Tasks, cluster |-> enabled, saves |-> 0]

\* The server process with event e appended and runServer moved to pc.
Logged(e, pc) == [server EXCEPT !.log = Append(@, e), !.pc = pc]

\* runServer: <-quit returns.
Signal ==
  /\ server.pc = "serving"
  /\ server' = Logged("signal", "cancel")
  /\ UNCHANGED butServer

\* runServer: cancel(), the context given to indexerService.Start.
Cancel ==
  /\ server.pc = "cancel"
  /\ server' = Logged("cancel", "shutdown")
  /\ UNCHANGED butServer

\* runServer: server.Shutdown(shutdownCtx); with an error or without, the
\* function returns and its deferred calls run.
HTTPShutdown(ok) ==
  /\ server.pc = "shutdown"
  /\ server' = Logged(IF ok THEN "http_shutdown" ELSE "http_forced", "defers")
  /\ UNCHANGED butServer

\* The deferred calls in the order their defer statements ran: the last
\* deferred runs first.
Deferred == <<"engine_close", "cluster_stop">>

\* runServer returns: clusterManager.Stop() (when cluster mode is enabled),
\* searchEngine.Close(), mongoClient.Disconnect() run, the last deferred
\* first; then the process exits.
RunDeferred ==
  /\ server.pc = "defers"
  /\ LET calls == <<"mongo_disconnect">> \o Deferred
         n == Cardinality({k \in 1..Len(server.log) : server.log[k] \in Range(calls) \cup {"cluster_none"}})
         next == calls[Len(calls) - n]
     IN IF n = Len(calls)
          THEN server' = Logged("exit", "exited")
          ELSE IF next = "cluster_stop" /\ ~server.cluster
            THEN server' = Logged("cluster_none", "defers")
            ELSE server' = Logged(next, "defers")
  /\ UNCHANGED butServer

\* A pipeline task returns: performInitialIndexing when it is done or, like
\* the poller and the flush routine, when it sees the cancelled context.
TaskReturn(t) ==
  /\ server.pc # "exited"
  /\ t \in server.tasks
  /\ t = "initial" \/ \E k \in 1..Len(server.log) : server.log[k] = "cancel"
  /\ server' = [server EXCEPT !.tasks = @ \ {t}, !.log = Append(@, t)]
  /\ UNCHANGED butServer

\* StartPeriodicSave: the ticker fires and Save runs; stopCh is never closed,
\* the saver runs until the process exits.
SaverTick ==
  /\ server.pc # "exited"
  /\ server.saves < MaxSaves
  /\ server' = [server EXCEPT !.saves = @ + 1, !.log = Append(@, "periodic_save")]
  /\ UNCHANGED butServer

\* The cluster at rest, for the specifications of the other subsystems.
ClusterOff ==
  /\ fsm = NewFSM
  /\ manager = NewManager

\* The parts outside the pipeline, the engine and the coordinator at rest.
ExtrasOff ==
  /\ cluster = NewCluster([n \in Nodes |-> <<>>])
  /\ server = NewServer(FALSE)
  /\ locator = NewLocator(<<"n">>, <<>>)
  /\ api = NewAPI(FALSE)
  /\ heap = NewHeap
  /\ store = NewStore
  /\ tick = NewTick([d \in TickDocs |-> [ts |-> 1, parse |-> TRUE, hasId |-> TRUE]], 1)
  /\ svc = NewService(0)
  /\ locks = NewLocks
  /\ twin = NewTwin(NoSink)

\* The later subsystems at rest, but one.
OffButCluster ==
  /\ server = NewServer(FALSE)
  /\ locator = NewLocator(<<"n">>, <<>>)
  /\ api = NewAPI(FALSE)
  /\ heap = NewHeap
  /\ store = NewStore
  /\ tick = NewTick([d \in TickDocs |-> [ts |-> 1, parse |-> TRUE, hasId |-> TRUE]], 1)
  /\ svc = NewService(0)
  /\ locks = NewLocks
  /\ twin = NewTwin(NoSink)
OffButServer ==
  /\ cluster = NewCluster([n \in Nodes |-> <<>>])
  /\ locator = NewLocator(<<"n">>, <<>>)
  /\ api = NewAPI(FALSE)
  /\ heap = NewHeap
  /\ store = NewStore
  /\ tick = NewTick([d \in TickDocs |-> [ts |-> 1, parse |-> TRUE, hasId |-> TRUE]], 1)
  /\ svc = NewService(0)
  /\ locks = NewLocks
  /\ twin = NewTwin(NoSink)
OffButLocator ==
  /\ cluster = NewCluster([n \in Nodes |-> <<>>])
  /\ server = NewServer(FALSE)
  /\ api = NewAPI(FALSE)
  /\ heap = NewHeap
  /\ store = NewStore
  /\ tick = NewTick([d \in TickDocs |-> [ts |-> 1, parse |-> TRUE, hasId |-> TRUE]], 1)
  /\ svc = NewService(0)
  /\ locks = NewLocks
  /\ twin = NewTwin(NoSink)
OffButApi ==
  /\ cluster = NewCluster([n \in Nodes |-> <<>>])
  /\ server = NewServer(FALSE)
  /\ locator = NewLocator(<<"n">>, <<>>)
  /\ heap = NewHeap
  /\ store = NewStore
  /\ tick = NewTick([d \in TickDocs |-> [ts |-> 1, parse |-> TRUE, hasId |-> TRUE]], 1)
  /\ svc = NewService(0)
  /\ locks = NewLocks
  /\ twin = NewTwin(NoSink)
OffButHeap ==
  /\ cluster = NewCluster([n \in Nodes |-> <<>>])
  /\ server = NewServer(FALSE)
  /\ locator = NewLocator(<<"n">>, <<>>)
  /\ api = NewAPI(FALSE)
  /\ store = NewStore
  /\ tick = NewTick([d \in TickDocs |-> [ts |-> 1, parse |-> TRUE, hasId |-> TRUE]], 1)
  /\ svc = NewService(0)
  /\ locks = NewLocks
  /\ twin = NewTwin(NoSink)
OffButStore ==
  /\ cluster = NewCluster([n \in Nodes |-> <<>>])
  /\ server = NewServer(FALSE)
  /\ locator = NewLocator(<<"n">>, <<>>)
  /\ api = NewAPI(FALSE)
  /\ heap = NewHeap
  /\ tick = NewTick([d \in TickDocs |-> [ts |-> 1, parse |-> TRUE, hasId |-> TRUE]], 1)
  /\ svc = NewService(0)
  /\ locks = NewLocks
  /\ twin = NewTwin(NoSink)
OffButTick ==
  /\ cluster = NewCluster([n \in Nodes |-> <<>>])
  /\ server = NewServer(FALSE)
  /\ locator = NewLocator(<<"n">>, <<>>)
  /\ api = NewAPI(FALSE)
  /\ heap = NewHeap
  /\ store = NewStore
  /\ svc = NewService(0)
  /\ locks = NewLocks
  /\ twin = NewTwin(NoSink)
OffButSvc ==
  /\ cluster = NewCluster([n \in Nodes |-> <<>>])
  /\ server = NewServer(FALSE)
  /\ locator = NewLocator(<<"n">>, <<>>)
  /\ api = NewAPI(FALSE)
  /\ heap = NewHeap
  /\ store = NewStore
  /\ tick = NewTick([d \in TickDocs |-> [ts |-> 1, parse |-> TRUE, hasId |-> TRUE]], 1)
  /\ locks = NewLocks
  /\ twin = NewTwin(NoSink)
OffButLocks ==
  /\ cluster = NewCluster([n \in Nodes |-> <<>>])
  /\ server = NewServer(FALSE)
  /\ locator = NewLocator(<<"n">>, <<>>)
  /\ api = NewAPI(FALSE)
  /\ heap = NewHeap
  /\ store = NewStore
  /\ tick = NewTick([d \in TickDocs |-> [ts |-> 1, parse |-> TRUE, hasId |-> TRUE]], 1)
  /\ svc = NewService(0)
  /\ twin = NewTwin(NoSink)
OffButTwin ==
  /\ cluster = NewCluster([n \in Nodes |-> <<>>])
  /\ server = NewServer(FALSE)
  /\ locator = NewLocator(<<"n">>, <<>>)
  /\ api = NewAPI(FALSE)
  /\ heap = NewHeap
  /\ store = NewStore
  /\ tick = NewTick([d \in TickDocs |-> [ts |-> 1, parse |-> TRUE, hasId |-> TRUE]], 1)
  /\ svc = NewService(0)
  /\ locks = NewLocks









(* --------------------------- specifications --------------------------- *)
\* One index over the collection: the whole life of the process.
InitPoll ==
  /\ cfg \in [idx : {{"i1"}}, batch : 1..MaxBatch]
  /\ source \in [Docs -> Ts]
  /\ state = EmptyStore
  /\ manifest = NoFile
  /\ tmpfile = NoFile
  /\ phase = "running"
  /\ run = 0
  /\ stopCh = FALSE
  /\ poll = [i \in Indexes |-> PollIdle("init")]
  /\ idx = [i \in Indexes |-> [d \in Docs |-> 0]]
  /\ hist = [i \in Indexes |-> NoHist]
  /\ saver = SaverIdle
  /\ sync = SyncIdle
  /\ init = [i \in Indexes |-> InitIdle("done")]
  /\ engine = EngineIdle
  /\ corpus = NoCorpus
  /\ ClusterOff
  /\ ExtrasOff
  /\ search = SearchIdle

NextPoll ==
  \/ Poller("i1")
  \/ InitialIndexerCreatesState("i1")
  \/ SourceWrite
  \/ StopSignal
  \/ PeriodicSave
  \/ Shutdown
  \/ Kill
  \/ Start

SpecPoll == InitPoll /\ [][NextPoll]_vars

\* Two indexes over the same collection, one run of the process.
InitShared ==
  /\ cfg \in [idx : {Indexes}, batch : 1..MaxBatch]
  /\ source \in [Docs -> Ts]
  /\ state = EmptyStore
  /\ manifest = NoFile
  /\ tmpfile = NoFile
  /\ phase = "running"
  /\ run = 0
  /\ stopCh = FALSE
  /\ poll = [i \in Indexes |-> PollIdle("init")]
  /\ idx = [i \in Indexes |-> [d \in Docs |-> 0]]
  /\ hist = [i \in Indexes |-> NoHist]
  /\ saver = SaverIdle
  /\ sync = SyncIdle
  /\ init = [i \in Indexes |-> InitIdle("done")]
  /\ engine = EngineIdle
  /\ corpus = NoCorpus
  /\ ClusterOff
  /\ ExtrasOff
  /\ search = SearchIdle

NextShared ==
  \/ \E i \in Indexes : PollerOK(i)
  \/ SourceInsert

SpecShared == InitShared /\ [][NextShared]_vars

\* One index, one run, no source or engine errors, and the poller's ticker
\* keeps firing: every step of the poller that stays enabled is taken.  The
\* documents present at the start are in the index already (initial indexing).
InitLive ==
  /\ cfg \in [idx : {{"i1"}}, batch : 1..MaxBatch]
  /\ source \in [Docs -> Ts]
  /\ state = EmptyStore
  /\ manifest = NoFile
  /\ tmpfile = NoFile
  /\ phase = "running"
  /\ run = 0
  /\ stopCh = FALSE
  /\ poll = [i \in Indexes |-> PollIdle("init")]
  /\ idx = [i \in Indexes |-> IF i = "i1" THEN source ELSE [d \in Docs |-> 0]]
  /\ hist = [i \in Indexes |-> NoHist]
  /\ saver = SaverIdle
  /\ sync = SyncIdle
  /\ init = [i \in Indexes |-> InitIdle("done")]
  /\ engine = EngineIdle
  /\ corpus = NoCorpus
  /\ ClusterOff
  /\ ExtrasOff
  /\ search = SearchIdle

\* Documents arrive only between two ticks of the poller.
SourceInsertBetweenTicks ==
  /\ poll["i1"].pc \in {"init", "wait"}
  /\ SourceInsert

NextLive ==
  \/ PollerOK("i1")
  \/ SourceInsertBetweenTicks

SpecLive == InitLive /\ [][NextLive]_vars /\ WF_vars(PollerOK("i1"))

\* The store and its manifest: setters, Save step by step, a crash at any
\* point, and the Load of the next run.
InitSave ==
  /\ cfg = [idx |-> {"i1"}, batch |-> 1]
  /\ source = [d \in Docs |-> 0]
  /\ state \in {EmptyStore, [EmptyStore EXCEPT !["db.d"] = EmptyCollectionState("db.d")]}
  /\ manifest = NoFile
  /\ tmpfile = NoFile
  /\ phase = "running"
  /\ run = 0
  /\ stopCh = FALSE
  /\ poll = [i \in Indexes |-> PollIdle("stopped")]
  /\ idx = [i \in Indexes |-> [d \in Docs |-> 0]]
  /\ hist = [i \in Indexes |-> NoHist]
  /\ saver = SaverIdle
  /\ sync = SyncIdle
  /\ init = [i \in Indexes |-> InitIdle("done")]
  /\ engine = EngineIdle
  /\ corpus = NoCorpus
  /\ ClusterOff
  /\ ExtrasOff
  /\ search = SearchIdle

NextSave ==
  \/ SaveBegin
  \/ SaveWrite
  \/ SaveRename
  \/ SaveReturn
  \/ Mutate
  \/ Crash
  \/ Restart

SpecSave == InitSave /\ [][NextSave]_vars

\* The initial indexer of one index, one run.
InitIndexing ==
  /\ cfg \in [idx : {{"i1"}}, batch : 1..MaxBatch]
  /\ source \in [Docs -> Ts]
  /\ state = EmptyStore
  /\ manifest = NoFile
  /\ tmpfile = NoFile
  /\ phase = "running"
  /\ run = 0
  /\ stopCh = FALSE
  /\ poll = [i \in Indexes |-> PollIdle("stopped")]
  /\ idx = [i \in Indexes |-> [d \in Docs |-> 0]]
  /\ hist = [i \in Indexes |-> NoHist]
  /\ saver = SaverIdle
  /\ sync = SyncIdle
  /\ init = [i \in Indexes |-> InitIdle(IF i = "i1" THEN "start" ELSE "done")]
  /\ engine = EngineIdle
  /\ corpus = NoCorpus
  /\ ClusterOff
  /\ ExtrasOff
  /\ search = SearchIdle

NextIndexing ==
  \/ InitialIndexer("i1")
  \/ StopSignal
  \/ SourceInsert

SpecIndexing == InitIndexing /\ [][NextIndexing]_vars

\* The pipeline at rest, for the specifications of the engine alone.
PipelineOff ==
  /\ cfg = [idx |-> {"i1"}, batch |-> 1]
  /\ source = [d \in Docs |-> 0]
  /\ state = EmptyStore
  /\ manifest = NoFile
  /\ tmpfile = NoFile
  /\ phase = "running"
  /\ run = 0
  /\ stopCh = FALSE
  /\ poll = [i \in Indexes |-> PollIdle("stopped")]
  /\ idx = [i \in Indexes |-> [d \in Docs |-> 0]]
  /\ hist = [i \in Indexes |-> NoHist]
  /\ saver = SaverIdle
  /\ sync = SyncIdle
  /\ init = [i \in Indexes |-> InitIdle("done")]

\* The engine under every configuration of the three index names.
InitRoute ==
  /\ PipelineOff
  /\ engine \in {[EngineIdle EXCEPT !.shards = sh] : sh \in [LogicalNames -> 0..MaxShards]}
  /\ corpus = NoCorpus
  /\ ClusterOff
  /\ ExtrasOff
  /\ search = SearchIdle

NextRoute ==
  \/ \E n \in LogicalNames : CreateIndex(n)
  \/ CleanupIndexes
  \/ NewEngine
  \/ \E n \in LogicalNames, id \in RouteIDs : IndexDocument(n, id, 1)

SpecRoute == InitRoute /\ [][NextRoute]_vars

\* Writes and sharded searches under every configuration of the three names,
\* as the indexes are created one after the other.
NextLookup ==
  \/ \E n \in LogicalNames : CreateIndex(n)
  \/ \E n \in LogicalNames, id \in RouteIDs : IndexDocument(n, id, 1)
  \/ \E n \in LogicalNames : SearchSharded(n)

SpecLookup == InitRoute /\ [][NextLookup]_vars

\* The documents of index "a", alone, beside "ab", or beside "a_shard_x".
InitCorpus ==
  /\ PipelineOff
  /\ engine \in {[EngineIdle EXCEPT !.shards = sh] :
                   sh \in {c \in [LogicalNames -> 0..MaxShards] :
                             c[NameA] >= 1 /\ c[NameAB] <= 1 /\ c[NameAShardX] <= 1
                             /\ c[NameAB] + c[NameAShardX] <= 1}}
  /\ corpus = NoCorpus
  /\ ClusterOff
  /\ ExtrasOff
  /\ search = SearchIdle

NextCorpus ==
  \/ \E n \in LogicalNames : CreateIndex(n)
  \/ \E id \in RouteIDs, f \in Fields : IndexDocument(NameA, id, f)
  \/ \E id \in RouteIDs : DeleteDocument(NameA, id)
  \/ \E b \in Batches, bulk, whole \in BOOLEAN : IndexBatch(NameA, b, bulk, whole)
  \/ \E n \in LogicalNames : RemoveIndex(n)
  \/ NewEngine

SpecCorpus == InitCorpus /\ [][NextCorpus]_vars

\* The engine at rest, for the specifications of the cluster.
EngineOff ==
  /\ engine = EngineIdle
  /\ corpus = NoCorpus
  /\ search = SearchIdle

\* One FSM fed every log entry.
InitFSM ==
  /\ PipelineOff
  /\ EngineOff
  /\ fsm = NewFSM
  /\ manager = NewManager
  /\ ExtrasOff

NextFSM == \E e \in LogEntries : Apply(e)

SpecFSM == InitFSM /\ [][NextFSM]_vars

\* The entries applied where snapshots are followed.
SnapEntries ==
  {e \in LogEntries :
     \/ ~e.valid
     \/ e.type \in {AddShardCommand, RemoveShardCommand} /\ e.data \in ShardData
     \/ e.type = IndexDistributionCommand /\ e.shard_id = "k1"
        /\ e.data = Distribution("ix1", <<"k1", "k2">>)}

NextSnapshot ==
  \/ \E e \in SnapEntries : Apply(e)
  \/ Snapshot
  \/ Persist(TRUE)
  \/ Restore

SpecSnapshot == InitFSM /\ [][NextSnapshot]_vars

\* raft hands a committed entry to the manager's FSM while it runs.
RaftApply(e) ==
  /\ manager.raft = "running"
  /\ Apply(e)

\* The entries raft applies to the manager's FSM while it runs.
ManagerEntries ==
  {e \in SnapEntries : e.valid /\ e.shard_id = "k1" /\ e.data = JNull}

\* One manager started and stopped in any order, every Start getting as far
\* as the system lets it.
NextManager ==
  \/ \E o \in StartOutcomes : ManagerStart(o)
  \/ \E ok \in BOOLEAN : ManagerStop(ok)
  \/ \E e \in ManagerEntries : RaftApply(e)

SpecManager == InitFSM /\ [][NextManager]_vars

\* Three nodes: A bootstraps, B and C are configured to join.
InitCluster ==
  /\ PipelineOff
  /\ EngineOff
  /\ ClusterOff
  /\ OffButCluster
  /\ \E join \in [Nodes -> JoinAddrs \ {<<>>}] :
       /\ join["A"] = join["C"] /\ join["C"] = <<"A">>
       /\ cluster = NewCluster(join)

\* What the nodes and their raft instances do by themselves.
NextNodes ==
  \/ \E n \in Nodes : NodeStart(n)
  \/ \E n \in Nodes : NodeStop(n)
  \/ \E n \in Nodes : monitorLeadership(n)
  \/ \E n \in Nodes : RaftElect(n)
  \/ \E n \in Nodes : RaftStepDown(n)
  \/ \E n \in Nodes : RaftReplicate(n)

\* The nodes, and callers that ask a node to add another.
NextCluster ==
  \/ NextNodes
  \/ \E l, x \in Nodes, ok \in BOOLEAN : AddNode(l, x, ok)
  \/ \E l, x \in Nodes, ok \in BOOLEAN : JoinCluster(l, x, ok)

SpecCluster == InitCluster /\ [][NextCluster]_vars

\* One Manager of any node ID and any configured distribution of a and b.
InitLocator ==
  /\ PipelineOff
  /\ EngineOff
  /\ ClusterOff
  /\ OffButLocator
  /\ \E id \in NodeIDs, names \in SUBSET RingIndexes :
       \E dist \in [names -> [replicas : 0..MaxReplicas, shards : 0..MaxRingShards]] :
         locator = NewLocator(id, dist)

NextLocator ==
  \/ initializeSharding
  \/ \E i \in RingIndexes : GetShardNode(i)
  \/ \E i \in RingIndexes : IsResponsibleForShard(i)

SpecLocator == InitLocator /\ [][NextLocator]_vars

\* The API over an engine with index a configured with any number of shards,
\* with and without configured credentials.
InitAPI ==
  /\ PipelineOff
  /\ engine \in {[EngineIdle EXCEPT !.shards = sh] :
                   sh \in {c \in [LogicalNames -> 0..MaxShards] :
                             c[NameA] >= 1 /\ c[NameAB] = 0 /\ c[NameAShardX] = 0}}
  /\ corpus = NoCorpus
  /\ search = SearchIdle
  /\ ClusterOff
  /\ OffButApi
  /\ \E a \in BOOLEAN : api = NewAPI(a)

NextAPI ==
  \/ \E n \in LogicalNames : CreateIndex(n)
  \/ \E req \in Requests : ServeHTTP(req)

SpecAPI == InitAPI /\ [][NextAPI]_vars

\* One StateManager and one caller of it.
InitHeap ==
  /\ PipelineOff
  /\ EngineOff
  /\ ClusterOff
  /\ OffButHeap
  /\ heap = NewHeap

NextHeap ==
  \/ \E k \in HeapKeys, t \in Ts : CallSetLastPollTime(k, t)
  \/ \E k \in HeapKeys : CallSetLastSyncTime(k, 1)
  \/ \E k \in HeapKeys : CallIncrementDocumentsIndexed(k, 1)
  \/ \E k \in HeapKeys, t \in Ts : CallUpdateCollectionState(k, t)
  \/ \E k \in HeapKeys : CallGetCollectionState(k)
  \/ \E k \in HeapKeys : CallGetAllCollectionStates(k)
  \/ \E n \in 0..MaxBatch : CallerWrite(n)

SpecHeap == InitHeap /\ [][NextHeap]_vars

\* One StateManager called by the goroutines at once.
InitStore ==
  /\ PipelineOff
  /\ EngineOff
  /\ ClusterOff
  /\ OffButStore
  /\ store = NewStore

NextStore ==
  \/ \E x \in Goroutines, op \in StoreOps, k \in Keys, n \in 1..MaxBatch : Lock(x, op, k, n)
  \/ \E x \in Goroutines : Lookup(x)
  \/ \E x \in Goroutines : Store(x)
  \/ \E x \in Goroutines : Unlock(x)

SpecStore == InitStore /\ [][NextStore]_vars

\* One poller over any source of MaxTickDocs documents.
InitTick ==
  /\ PipelineOff
  /\ EngineOff
  /\ ClusterOff
  /\ OffButTick
  /\ \E src \in TickSources, b \in 1..MaxBatch : tick = NewTick(src, b)

NextTick ==
  \/ pollQuery(TRUE)
  \/ pollCursorNext
  \/ pollIndexRemaining
  \/ pollSetLastPollTime
  \/ pollIncrementDocumentsIndexed
  \/ pollSetLastSyncTime
  \/ pollSelectStop
  \/ CloseStopCh
  \/ Observe

SpecTick == InitTick /\ [][NextTick]_vars

\* The poller left to run, with a source that always answers.
NextTicking ==
  \/ pollQuery(FALSE)
  \/ pollCursorNext
  \/ pollIndexRemaining
  \/ pollSetLastPollTime
  \/ pollIncrementDocumentsIndexed
  \/ pollSetLastSyncTime

SpecTicking == InitTick /\ [][NextTicking]_vars /\ WF_vars(NextTicking)

\* One Service started, with a collection of up to MaxScan documents, and
\* stopped at any moment.
InitSvc ==
  /\ PipelineOff
  /\ EngineOff
  /\ ClusterOff
  /\ OffButSvc
  /\ \E n \in 0..MaxScan : svc = NewService(n)

NextSvc ==
  \/ StopClose
  \/ StopWait
  \/ StopSave
  \/ \E t \in Tickers : SelectTicker(t)
  \/ \E t \in Tickers : TickEnds(t)
  \/ \E t \in Tickers : SelectStop(t)
  \/ ScanTurn
  \/ ScanRest

\* Every goroutine keeps running, and a select that is offered the closed
\* stop channel again and again takes it in the end: Go's select chooses
\* among its ready cases at random.
SpecSvc ==
  /\ InitSvc /\ [][NextSvc]_vars
  /\ WF_vars(StopWait) /\ WF_vars(StopSave) /\ WF_vars(ScanTurn) /\ WF_vars(ScanRest)
  /\ \A t \in Tickers : WF_vars(TickEnds(t)) /\ SF_vars(SelectStop(t))

\* A cold start: no manifest, Service.Start launches the initial indexer and
\* the poller of the index together; the source and the engine never fail.
InitColdStart ==
  /\ cfg \in [idx : {{"i1"}}, batch : 1..MaxBatch]
  /\ source \in [Docs -> Ts]
  /\ state = EmptyStore
  /\ manifest = NoFile
  /\ tmpfile = NoFile
  /\ phase = "running"
  /\ run = 0
  /\ stopCh = FALSE
  /\ poll = [i \in Indexes |-> PollIdle(IF i = "i1" THEN "init" ELSE "stopped")]
  /\ idx = [i \in Indexes |-> [d \in Docs |-> 0]]
  /\ hist = [i \in Indexes |-> NoHist]
  /\ saver = SaverIdle
  /\ sync = SyncIdle
  /\ init = [i \in Indexes |-> InitIdle(IF i = "i1" THEN "start" ELSE "done")]
  /\ EngineOff
  /\ ClusterOff
  /\ ExtrasOff

NextColdStart ==
  \/ InitialIndexer("i1")
  \/ PollerOK("i1")

SpecColdStart == InitColdStart /\ [][NextColdStart]_vars

\* Goroutines calling the engine's operations concurrently.
InitLocks ==
  /\ PipelineOff
  /\ EngineOff
  /\ ClusterOff
  /\ OffButLocks
  /\ locks = NewLocks

NextLocks ==
  \/ \E c \in Goroutines, op \in EngineOps, n \in 0..MaxKeys : EngineCall(c, op, n)
  \/ \E c \in Goroutines : LockPending(c)
  \/ \E c \in Goroutines : LockAcquire(c)
  \/ \E c \in Goroutines : RLock(c)
  \/ \E c \in Goroutines : Release(c)

SpecLocks == InitLocks /\ [][NextLocks]_vars

\* Two instances from the same start, fed the same log.
InitTwin ==
  /\ PipelineOff
  /\ EngineOff
  /\ ClusterOff
  /\ OffButTwin
  /\ \E base \in TwinBases \cup {NoSink} : twin = NewTwin(base)

NextTwin ==
  \/ \E e \in TwinEntries : Commit(e)
  \/ \E x \in Instances : TwinApply(x)

SpecTwin == InitTwin /\ [][NextTwin]_vars

\* One server process from serving to its exit.
InitServer ==
  /\ PipelineOff
  /\ EngineOff
  /\ ClusterOff
  /\ OffButServer
  /\ \E enabled \in BOOLEAN : server = NewServer(enabled)

NextServer ==
  \/ Signal
  \/ Cancel
  \/ \E ok \in BOOLEAN : HTTPShutdown(ok)
  \/ RunDeferred
  \/ \E t \in Tasks : TaskReturn(t)
  \/ SaverTick

SpecServer == InitServer /\ [][NextServer]_vars

\* The same, where the nodes and their raft instances keep taking the steps
\* they can take; no caller is obliged to ask for anything.
SpecJoin == SpecCluster /\ WF_vars(NextNodes)

\* One SearchSharded call over every content of the shards.
InitSearch ==
  /\ PipelineOff
  /\ engine = EngineIdle
  /\ corpus = NoCorpus
  /\ ClusterOff
  /\ ExtrasOff
  /\ search \in {[SearchIdle EXCEPT !.shard = f] : f \in [Shards -> HitLists]}

NextSearch ==
  \/ SearchStart
  \/ \E sh \in Shards : ShardReply(sh)
  \/ SearchFinish

SpecSearch == InitSearch /\ [][NextSearch]_vars

\* The documents of a shard that fall into the buckets, as hits of score 1
\* (every matching document carries one term of the facet field).
RECURSIVE SumCounts(_)
SumCounts(b) ==
  IF DOMAIN b = {} THEN 0
  ELSE LET k == CHOOSE x \in DOMAIN b : TRUE
       IN b[k] + SumCounts([j \in (DOMAIN b) \ {k} |-> b[j]])

\* One SearchSharded call with a facet over three shards.
InitFacet ==
  /\ PipelineOff
  /\ engine = EngineIdle
  /\ corpus = NoCorpus
  /\ ClusterOff
  /\ ExtrasOff
  /\ search \in {[SearchIdle EXCEPT
                    !.shard = [sh \in FacetShards |-> [n \in 1..SumCounts(f[sh].buckets) |-> 1]],
                    !.facet = f] : f \in [FacetShards -> ShardFacets]}

NextFacet ==
  \/ SearchStart
  \/ \E sh \in FacetShards : ShardReply(sh)
  \/ SearchFinish

SpecFacet == InitFacet /\ [][NextFacet]_vars

(* ------------------------------ claims -------------------------------- *)
Lpt(k) == state[k].lpt

\* C1: after a poll tick has advanced last_poll_time, every document it
\* observed and failed to write still has a timestamp above last_poll_time.
C1_UnwrittenStayAhead ==
  poll["i1"].pc = "incr" =>
    \A e \in poll["i1"].failed : e.ts > Lpt(CollKey("i1"))

C3_EventuallyIndexed ==
  \A d \in Docs, t \in 1..MaxTs :
    (state[CollKey("i1")].exists /\ source[d] = t /\ t > Lpt(CollKey("i1")))
      ~> (idx["i1"][d] >= t)

\* C4: no step of a poll tick lowers the stored last_poll_time.
C4_LptNeverDecreases ==
  [][\A i \in cfg.idx :
       (poll[i].pc = "commit" /\ poll'[i].pc # "commit")
         => Lpt(CollKey(i))' >= Lpt(CollKey(i))]_vars

\* C5: Save is crash-atomic.  The manifest is never a partial file; while a
\* Save runs, after it failed, and after a crash inside it, the manifest is
\* the complete content from before the Save or the complete content being
\* saved; after a Save that returned nil the manifest is the saved content
\* and the '.tmp' file is gone; the next run's Load never fails.
C5_SaveCrashAtomic ==
  LET post == [exists |-> TRUE, data |-> saver.data, len |-> FileLen] IN
  /\ manifest.exists => Complete(manifest)
  /\ (saver.pc # "idle" \/ saver.crashed \/ saver.ret = "err")
       => manifest \in {saver.pre, post}
  /\ saver.ret = "ok" => (manifest = post /\ tmpfile = NoFile)
  /\ saver.load # "err"

\* C5 witness: the process crashed while Save was writing the '.tmp' file;
\* the next run finds the earlier manifest whole, beside a partial '.tmp'.
C5_Witness ==
  /\ saver.crashed /\ phase = "running" /\ run >= 1 /\ saver.load = "ok"
  /\ tmpfile.exists /\ ~Complete(tmpfile) /\ tmpfile.len >= 1
  /\ manifest.exists /\ manifest = saver.pre /\ manifest.data # saver.data

\* C6: a Load by a fresh StateManager restores, for every collection key,
\* exactly the state whose Save last replaced the manifest; with no manifest
\* it returns no error and leaves the state empty.
C6_SaveLoadRoundTrip ==
  (phase = "running" /\ saver.load # "none")
    => /\ saver.load = "ok"
       /\ IF manifest.exists THEN state = saver.disk ELSE state = EmptyStore

\* C6 witness: the next run loaded a manifest whose last_poll_time has a
\* fraction of a second and whose counter is not zero.
C6_Witness ==
  /\ phase = "running" /\ run >= 1 /\ saver.load = "ok" /\ manifest.exists
  /\ saver.ret = "ok"
  /\ state["db.c"].exists
  /\ state["db.c"].lpt % SubSec # 0
  /\ state["db.c"].docsIndexed > 0
  /\ state["db.c"].indexName = "i1"

\* C7: the initial indexer's start step sets sync_status in_progress and
\* progress "0%"; its completion sets idle and "100%"; a failure to open the
\* cursor sets idle and leaves progress as it was; no other step of the
\* initial indexer changes sync_status.
C7_InitialIndexerStatus ==
  [][\A i \in cfg.idx :
       LET k == CollKey(i) IN
       /\ (init[i].pc = "start" /\ init'[i].pc = "count")
            => (sync'[k].status = "in_progress" /\ sync'[k].progress = "0%")
       /\ (init[i].pc = "finish" /\ init'[i].pc = "done")
            => (sync'[k].status = "idle" /\ sync'[k].progress = "100%")
       /\ (init[i].pc = "open" /\ init'[i].pc = "failed")
            => (sync'[k].status = "idle" /\ sync'[k].progress = sync[k].progress)
       /\ (init'[i] # init[i] /\ init[i].pc \in {"count", "iter", "rest"})
            => sync'[k].status = sync[k].status
       /\ (init'[i] # init[i] /\ init[i].pc = "open" /\ init'[i].pc # "failed")
            => sync'[k].status = sync[k].status]_vars

\* C7 witness: the count failed, then the cursor could not be opened: the
\* task ended idle with progress still "not_available".
C7_Witness ==
  /\ init["i1"].pc = "failed"
  /\ sync[CollKey("i1")].status = "idle"
  /\ sync[CollKey("i1")].progress = "not_available"

\* The physical index the configuration gives document id of index n.
ConfiguredShard(n, id) ==
  IF engine.shards[n] > 1
    THEN ShardName(n, HashMod(fnv32(id), engine.shards[n]))
    ELSE n

\* C8: IndexDocument on a configured index whose physical indexes all exist
\* writes to '{index}_shard_{fnv32(id) mod S}', S the configured shard count
\* (to the index itself when S = 1), whatever other indexes the engine holds.
C8_RoutesByConfiguredShards ==
  (engine.last.op = "index" /\ engine.last.present)
    => /\ engine.last.kind = "written"
       /\ engine.last.shard = ConfiguredShard(engine.last.index, engine.last.id)

\* The merged hits of all shards, best first.
RECURSIVE AllHits(_)
AllHits(S) ==
  IF S = {} THEN <<>>
  ELSE LET sh == CHOOSE x \in S : TRUE IN search.shard[sh] \o AllHits(S \ {sh})

\* C9: with every shard answering, SearchSharded returns positions
\* from..from+size of all the hits of all shards sorted by descending score.
C9_GlobalPage ==
  (search.pc = "done" /\ search.failed = {})
    => search.result.hits =
         SubSeq(sortHitsByScore(AllHits(Shards)), search.from + 1,
                Min(Len(AllHits(Shards)), search.from + search.size))

RECURSIVE SumTotals(_)
SumTotals(S) ==
  IF S = {} THEN 0
  ELSE LET sh == CHOOSE x \in S : TRUE IN Len(search.shard[sh]) + SumTotals(S \ {sh})

\* C10: SearchSharded returns without error whatever shards fail and in
\* whatever order the replies arrive; total is the sum of the totals of the
\* shards that answered and maxScore the largest of their max scores.
C10_FailedShardsDropped ==
  search.pc = "done" =>
    LET answered == Shards \ search.failed IN
    /\ ~search.result.err
    /\ search.result.total = SumTotals(answered)
    /\ \A sh \in answered : \A n \in 1..Len(search.shard[sh]) :
         search.result.maxScore >= search.shard[sh][n]
    /\ \/ search.result.maxScore = 0
       \/ \E sh \in answered : \E n \in 1..Len(search.shard[sh]) :
            search.result.maxScore = search.shard[sh][n]

\* C10 witness: one shard failed, the other answered with hits.
C10_Witness ==
  /\ search.pc = "done"
  /\ search.failed # {} /\ search.failed # Shards
  /\ search.result.total > 0 /\ search.result.maxScore > 0

\* The count a facet holds for key k; a missing bucket counts zero.
BucketCount(f, k) == IF f.exists /\ k \in DOMAIN f.buckets THEN f.buckets[k] ELSE 0

RECURSIVE SumBucket(_, _)
SumBucket(S, k) ==
  IF S = {} THEN 0
  ELSE LET sh == CHOOSE x \in S : TRUE
       IN BucketCount(search.facet[sh], k) + SumBucket(S \ {sh}, k)

\* C11: in the result of SearchSharded every facet bucket count is the sum of
\* that bucket's counts over the shards that answered, a shard without the
\* bucket counting zero, in whatever order the replies were merged; the
\* result has a bucket exactly for the keys some answering shard has.
C11_FacetCountsSum ==
  search.pc = "done" =>
    LET answered == (DOMAIN search.shard) \ search.failed IN
    /\ search.result.facets.exists <=> (\E sh \in answered : search.facet[sh].exists)
    /\ \A k \in FacetKeys :
         /\ BucketCount(search.result.facets, k) = SumBucket(answered, k)
         /\ k \in DOMAIN search.result.facets.buckets
              <=> \E sh \in answered : k \in DOMAIN search.facet[sh].buckets

\* C11 witness: three shards answered; two of them hold bucket "x", the third
\* holds only bucket "y"; the merged count of "x" is the sum of the two.
C11_Witness ==
  /\ search.pc = "done" /\ search.failed = {}
  /\ DOMAIN search.shard = FacetShards
  /\ \E a, b, c \in FacetShards :
       /\ a # b /\ b # c /\ a # c
       /\ BucketCount(search.facet[a], "x") = 2
       /\ BucketCount(search.facet[b], "x") = 1
       /\ search.facet[c].exists /\ DOMAIN search.facet[c].buckets = {"y"}
  /\ BucketCount(search.result.facets, "x") = 3

\* A step that is a call of op: the call record is renewed.
IsCall(op) == engine'.last.op = op /\ engine'.last.seq # engine.last.seq

\* C12: whichever write path indexBatch takes for a batch, the documents of
\* every physical index are afterwards what the bulk path (however a refused
\* document is reported) and the individual path each leave from the state
\* before; so the doc counts agree too.
C12_BulkEqualsIndividual ==
  [][IsCall("batch") =>
       LET n == engine'.last.index
           b == engine'.last.batch
           individual == indexBatchIndividualOn(engine.indexes, corpus, n, b, 1)
       IN /\ corpus' = individual
          /\ \A whole \in BOOLEAN :
               indexBatchBulkOn(engine.indexes, corpus, n, b, whole) = individual]_vars

\* C13: an IndexDocument call that repeats the call before it, which wrote
\* the document, also succeeds and leaves every physical index, and so
\* every doc count, as it was.
C13_IndexDocumentIdempotent ==
  [][(IsCall("index") /\ engine'.last.repeat /\ engine.last.kind = "written")
       => /\ engine'.last.kind = "written"
          /\ corpus' = corpus
          /\ \A name \in DOMAIN corpus : DocCount(corpus'[name]) = DocCount(corpus[name])]_vars

\* C13 witness: on the index with two shards a document was written twice
\* with the same fields, beside another document; each shard holds one.
C13_Witness ==
  /\ engine.last.op = "index" /\ engine.last.repeat /\ engine.last.kind = "written"
  /\ engine.shards[NameA] = 2 /\ engine.last.index = NameA
  /\ engine.last.shard \in DOMAIN corpus
  /\ corpus[engine.last.shard][engine.last.id] = engine.last.fields
  /\ \A name \in PhysicalNames(NameA, 2) :
       name \in DOMAIN corpus /\ DocCount(corpus[name]) = 1

\* The physical indexes of the configured indexes.
ConfiguredPhysical ==
  UNION {PhysicalNames(n, engine.shards[n]) : n \in {m \in LogicalNames : engine.shards[m] >= 1}}

\* C14: when CleanupIndexes runs with every configured index created, the
\* engine afterwards holds, and the disk has, exactly the physical indexes
\* of the configured indexes.
C14_StartupKeepsConfigured ==
  [][(IsCall("cleanup") /\ ConfiguredPhysical \subseteq engine.indexes)
       => /\ engine'.indexes = ConfiguredPhysical
          /\ DOMAIN corpus' = ConfiguredPhysical]_vars

\* C15: RemoveIndex on an index whose physical indexes are open returns no
\* error and leaves none of them in the engine or on disk; in every case the
\* physical indexes of the other indexes stay as they are; an error is
\* returned only when no physical index of the name is open.
C15_RemoveIndexRemovesAll ==
  [][IsCall("remove") =>
       LET n == engine'.last.index
           own == PhysicalNames(n, engine.shards[n])
       IN /\ engine'.last.present
               => /\ engine'.last.kind = "removed"
                  /\ own \cap engine'.indexes = {}
                  /\ own \cap DOMAIN corpus' = {}
          /\ engine'.indexes \ own = engine.indexes \ own
          /\ \A name \in (DOMAIN corpus) \ own :
               name \in DOMAIN corpus' /\ corpus'[name] = corpus[name]
          /\ engine'.last.kind = "error" => own \cap engine.indexes = {}]_vars

\* C16: a DeleteDocument call that follows the IndexDocument call which wrote
\* the same ID to the same index returns no error and leaves the ID absent
\* from every physical index of that index.
C16_DeleteFollowsIndex ==
  [][(IsCall("delete") /\ engine.last.op = "index" /\ engine.last.kind = "written"
      /\ engine'.last.index = engine.last.index /\ engine'.last.id = engine.last.id)
       => /\ engine'.last.kind = "deleted"
          /\ \A name \in PhysicalNames(engine.last.index, engine.shards[engine.last.index]) :
               name \in DOMAIN corpus' => corpus'[name][engine.last.id] = 0]_vars

\* A step that is an Apply: the record of the last Apply is renewed.
IsApply == fsm'.last.seq # fsm.last.seq

\* C17: applying an IndexDistribution entry whose data is the JSON of
\* {index_name, shards: [keys]} sets indexShards[index_name] to the keys,
\* returns 'index <name> distribution updated', and leaves the placement map
\* and the lists of the other indexes as they were.
C17_IndexDistributionApplied ==
  [][(IsApply /\ fsm'.last.entry.valid /\ fsm'.last.entry.type = IndexDistributionCommand)
       => \A n \in IndexNames, q \in KeyLists :
            fsm'.last.entry.data = Distribution(n, q)
              => /\ fsm'.indexShards = MapSet(fsm.indexShards, n, q)
                 /\ fsm'.last.result = Returned("string", <<"index", n, "distribution updated">>)
                 /\ fsm'.shards = fsm.shards]_vars

\* C18: after Restore both maps of the FSM are exactly the maps of the
\* snapshot that was persisted, whatever the FSM held before; and both maps
\* were decoded from fields present in the bytes, so that they can take the
\* writes of further Apply calls.
C18_SnapshotRestoreRoundTrip ==
  fsm.restored =>
    /\ fsm.shards = fsm.snap.shards
    /\ fsm.indexShards = fsm.snap.indexShards
    /\ fsm.sink.written => {"shards", "index_shards"} \subseteq DOMAIN fsm.sink.json.v

\* C18 witness: a snapshot with two shards was taken, one with data and one
\* without; then "k1" was removed; the Restore brought back both.
C18_Witness ==
  /\ fsm.restored
  /\ fsm.last.entry.valid /\ fsm.last.entry.type = RemoveShardCommand
  /\ fsm.last.entry.shard_id = "k1"
  /\ DOMAIN fsm.shards = {"k1", "k2"}
  /\ fsm.shards["k1"].t = "map[string]interface{}" /\ fsm.shards["k2"] = GoNil

\* C19: an entry that is not JSON returns the error 'failed to unmarshal
\* command' and an entry of an unknown type the error 'unknown command type',
\* both leaving the two maps as they were; AddShard and UpdateShard set
\* shards[shard_id] to the decoded data; RemoveShard deletes the key, which
\* changes nothing when the key is absent; none of the three touches
\* another key or indexShards.
C19_ApplyErrorsAndShardCommands ==
  [][IsApply =>
       LET e == fsm'.last.entry
           r == fsm'.last.result
           unchanged == fsm'.shards = fsm.shards /\ fsm'.indexShards = fsm.indexShards
           others == /\ fsm'.indexShards = fsm.indexShards
                     /\ \A k \in ShardKeys \ {e.shard_id} :
                          /\ k \in DOMAIN fsm'.shards <=> k \in DOMAIN fsm.shards
                          /\ k \in DOMAIN fsm.shards => fsm'.shards[k] = fsm.shards[k]
       IN /\ ~e.valid => (r = Returned("error", <<"failed to unmarshal command">>) /\ unchanged)
          /\ (e.valid /\ e.type \notin 0..3)
               => (r = Returned("error", <<"unknown command type">>) /\ unchanged)
          /\ (e.valid /\ e.type \in {AddShardCommand, UpdateShardCommand})
               => /\ r.kind = "string" /\ others
                  /\ e.shard_id \in DOMAIN fsm'.shards
                  /\ fsm'.shards[e.shard_id] = jsonDecodeIface(e.data)
          /\ (e.valid /\ e.type = RemoveShardCommand)
               => /\ r.kind = "string" /\ others
                  /\ e.shard_id \notin DOMAIN fsm'.shards
                  /\ e.shard_id \notin DOMAIN fsm.shards => unchanged]_vars

\* C19 witness: an entry of an unknown type was applied to an FSM that holds
\* a shard, and returned the error.
C19_Witness ==
  /\ fsm.last.entry.valid /\ fsm.last.entry.type = MaxType
  /\ fsm.last.result = Returned("error", <<"unknown command type">>)
  /\ DOMAIN fsm.shards = {"k1"} /\ fsm.shards["k1"] # GoNil

\* A step that is a call of op on the manager.
IsManagerCall(op) == manager'.last.seq # manager.last.seq /\ manager'.last.op = op

\* C20: Start on a running manager fails with 'cluster manager is already
\* running' and Stop on a manager that is not running returns nil, both
\* changing nothing; isRunning becomes true only by a Start that returns nil,
\* which every Start that is not refused and does not fail does; it becomes
\* false only by a Stop that returns nil; a Start that fails part-way leaves
\* it false and a Stop that fails leaves it true.
C20_ManagerLifecycle ==
  [][LET same == /\ [manager' EXCEPT !.last = manager.last] = manager
                 /\ fsm' = fsm
         r == manager'.last.result
     IN /\ (IsManagerCall("start") /\ manager.isRunning)
             => (r = "cluster manager is already running" /\ same)
        /\ (IsManagerCall("stop") /\ ~manager.isRunning) => (r = "nil" /\ same)
        /\ (IsManagerCall("start") /\ ~manager.isRunning) => (manager'.isRunning <=> r = "nil")
        /\ (IsManagerCall("stop") /\ manager.isRunning) => (manager'.isRunning <=> r # "nil")
        /\ ~(IsManagerCall("start") \/ IsManagerCall("stop"))
             => manager'.isRunning = manager.isRunning]_vars

\* C20 witness: after a Start and a Stop that both succeeded, a Start failed
\* at the log store; the manager is not running.
C20_Witness ==
  /\ manager.last.op = "start"
  /\ manager.last.result = StartError("logstore")
  /\ manager.cancelled /\ manager.raft = "shutdown"
  /\ ~manager.isRunning

\* The nodes whose IsLeader() returns true.
Leaders == {n \in Nodes : cluster.isLeader[n]}

\* C21: in every reachable state of the cluster at most one node's
\* IsLeader() returns true.
C21_AtMostOneLeader == Cardinality(Leaders) <= 1

\* What GetNodeIDs reports on node n: the servers of its raft configuration.
GetNodeIDs(n) == cluster.conf[n]

\* C22: when from some point on A is a running leader and B, configured with
\* join_addr = [A, ...] and no bootstrap, is running, then eventually both
\* report the membership {A, B} and exactly one of the two reports itself
\* leader.
C22_JoinReachesMembership ==
  <>[](/\ cluster.isRunning["A"] /\ cluster.raft["A"] = "leader"
       /\ cluster.isRunning["B"] /\ cluster.joinAddr["B"][1] = "A")
    => <>(/\ GetNodeIDs("A") = {"A", "B"}
          /\ GetNodeIDs("B") = {"A", "B"}
          /\ Cardinality(Leaders \cap {"A", "B"}) = 1)

\* C23: a JoinCluster response carries the 'successfully joined the cluster'
\* message only when the caller was added as a voter.
C23_JoinReportsOnlySuccess ==
  cluster.rpc.message = "successfully joined the cluster" => cluster.rpc.added

\* The position of event e in the server's log; 0 when it is not there.
Pos(e) ==
  IF \E k \in 1..Len(server.log) : server.log[k] = e
    THEN CHOOSE k \in 1..Len(server.log) : server.log[k] = e
    ELSE 0

\* C25: when the process has exited after a shutdown signal, the pipeline
\* was cancelled, then every pipeline task returned, then the sync state was
\* saved a final time, then the engine was closed, and only then the cluster
\* coordinator was stopped.
C25_ShutdownOrder ==
  server.pc = "exited" =>
    /\ Pos("cancel") > Pos("signal")
    /\ \A t \in Tasks : Pos(t) > 0
    /\ \A t \in Tasks \ {"initial"} : Pos(t) > Pos("cancel")
    /\ \E k \in 1..Len(server.log) :
         /\ server.log[k] \in {"final_save", "periodic_save"}
         /\ \A t \in Tasks : k > Pos(t)
         /\ k < Pos("engine_close")
    /\ server.cluster => Pos("cluster_stop") > Pos("engine_close")

\* C24: for a configured index, GetShardNode returns this node's ID and no
\* error, with the ring built from the node's own shards and with no ring;
\* IsResponsibleForShard is true exactly when the lookup fails or returns
\* this node's ID.
C24_OwnShardsOwnNode ==
  /\ (locator.last.op = "GetShardNode" /\ locator.last.index \in DOMAIN locator.dist)
       => (~locator.last.err /\ locator.last.node = locator.nodeID)
  /\ locator.last.op = "IsResponsibleForShard"
       => (locator.last.responsible <=> (locator.last.err \/ locator.last.node = locator.nodeID))

\* C26: with a user name and a password configured, a request to a route
\* other than /health without the valid credential is answered 401 with a
\* WWW-Authenticate header and does not reach the handler; /health is
\* answered 200 without credentials; with nothing configured no request is
\* answered 401.
C26_BasicAuthEnforced ==
  LET req == api.last.req
      resp == api.last.resp
  IN /\ (api.auth /\ req.method = RouteMethod(req.route) /\ req.route # "/health"
           /\ req.creds # "valid")
          => (resp.status = 401 /\ resp.wwwAuthenticate /\ ~resp.handler)
     /\ (api.auth /\ req.method = "GET" /\ req.route = "/health") => resp.status = 200
     /\ ~api.auth => resp.status # 401

\* The last request is a search served by the router's handler.
IsSearch ==
  /\ api.last.req.route = "/indexes/{index}/search"
  /\ api.last.req.method = "POST"

\* C27: a search addressed to the logical name of an index configured with
\* more than one shard, all of them open, is not answered 404 and is served
\* by the scatter-gather path; a search on an index configured with one
\* shard is served by the direct engine search.
C27_ShardedSearchAccepted ==
  (IsSearch /\ api.last.present /\ convertQuery(api.last.req.query).outcome = "query")
    => /\ api.last.shards > 1
            => (api.last.resp.status # 404 /\ api.last.resp.path = "scatter")
       /\ api.last.shards = 1 => api.last.resp.path = "direct"

\* C28: on an index that exists, a term or wildcard query whose 'value' or
\* 'path' is missing or not a string is answered 400, without a panic; a
\* query object with none of the recognised keys translates to match-all.
C28_InvalidQueryIs400 ==
  (IsSearch /\ api.last.present /\ api.last.shards = 1)
    => /\ (/\ api.last.req.query.kind \in {"term", "wildcard"}
           /\ {api.last.req.query.value, api.last.req.query.path} # {"string"})
            => api.last.resp.status = 400
       /\ api.last.req.query.kind \in {"none", "other"}
            => (api.last.resp.status = 200 /\ api.last.resp.bleve = "match_all")

\* The calls that write the store.
StoreWriters ==
  {"SetLastPollTime", "SetLastSyncTime", "IncrementDocumentsIndexed", "UpdateCollectionState"}

\* C29: a call of a setter or of UpdateCollectionState leaves the value the
\* caller was returned by GetCollectionState or GetAllCollectionStates as it
\* was, and a write of the caller to the value it was returned, or to the
\* value it passed to UpdateCollectionState, leaves the store's contents as
\* they were.
C29_ReturnedValuesAreSnapshots ==
  [][/\ (heap.how \in {"get", "getall"} /\ heap'.op \in StoreWriters
           /\ heap'.held = heap.held)
         => heap'.cells[heap.held] = heap.cells[heap.held]
     /\ heap'.op = "write" => Contents(heap') = Contents(heap)]_vars

\* The part of C29 that is about GetAllCollectionStates alone.
GetAllReturnsCopies ==
  [][/\ (heap.how = "getall" /\ heap'.op \in StoreWriters /\ heap'.held = heap.held)
         => heap'.cells[heap.held] = heap.cells[heap.held]
     /\ (heap.how = "getall" /\ heap'.op = "write") => Contents(heap') = Contents(heap)]_vars

\* The goroutines are all between two calls.
AllReturned == \A x \in Goroutines : store.g[x].pc = "idle"

\* C30: whenever every call has returned, documents_indexed of each key is
\* the sum of the increments of the calls on that key (no entry: zero); and
\* the entry a targeted setter created on an absent key holds the key and the
\* field set, and nothing else.
C30_NoIncrementLost ==
  /\ AllReturned =>
       \A k \in Keys :
         (IF store.coll[k].exists THEN store.coll[k].docsIndexed ELSE 0) = store.applied[k]
  /\ store.created.by # "none" =>
       LET e == store.created.entry
       IN /\ e.exists /\ e.collectionKey = store.created.key
          /\ e.indexName = "" /\ e.tsField = "" /\ e.idField = "" /\ e.lst = 0
          /\ e.lpt = (IF store.created.by = "SetLastPollTime" THEN store.created.arg ELSE 0)
          /\ e.docsIndexed =
               (IF store.created.by = "IncrementDocumentsIndexed" THEN store.created.arg ELSE 0)

\* Every goroutine has made all its calls, the two of them have incremented
\* one key by three or more, and a setter found its key absent.
C30_Witness ==
  /\ AllReturned
  /\ \A x \in Goroutines : store.g[x].ops = MaxOps /\ store.g[x].op = "IncrementDocumentsIndexed"
  /\ store.g["g1"].key = store.g["g2"].key
  /\ store.applied[store.g["g1"].key] >= 3
  /\ store.created.by = "SetLastPollTime"

\* A tick has run to its end.
TickDone == tick.pc = "select" /\ tick.ended = "done"

\* C31: when a tick has ended, a document its cursor yielded whose timestamp
\* does not parse was not written to the index by the tick, and
\* last_poll_time is still below the value the source orders it by.
C31_UnparseableSkipped ==
  TickDone =>
    \A d \in tick.seen :
      ~tick.src[d].parse => (d \notin tick.wrote /\ tick.lpt < tick.src[d].ts)

\* C33: no reader and no Save takes from the store a last_poll_time that a
\* tick has already set together with the documents_indexed from before
\* that tick.
C33_EndOfTickAtomic ==
  tick.obs.taken =>
    (tick.obs.lpt # tick.obs.pre.lpt => tick.obs.docs # tick.obs.pre.docs)

\* C34: a tick that returned, the source query failed or not, published
\* last_sync_time as the clock stood; and a tick whose cursor yielded no
\* document left last_poll_time and documents_indexed as they were.
C34_LastSyncTimeAlways ==
  (tick.pc = "select" /\ tick.ended \in {"done", "query failed"}) =>
    /\ tick.lst = tick.now
    /\ tick.seen = {} => (tick.lpt = tick.pre.lpt /\ tick.docs = tick.pre.docs)

\* The source holds parseable timestamps only, no two of them equal.
PlainSource ==
  /\ \A d \in TickDocs : tick.src[d].parse
  /\ \A d, e \in TickDocs : tick.src[d].ts = tick.src[e].ts => d = e

\* C40: with a source of parseable, distinct timestamps that always answers,
\* every document that has the id_field is eventually in the index, whatever
\* documents without it lie below.
C40_UnroutableCannotBlock ==
  PlainSource => <>(\A d \in TickDocs : tick.src[d].hasId => d \in tick.index)

\* C32 as claimed: after Service.Stop closed the stop channel, every task returns
\* without taking its ticker's case again, Stop's wait returns, and the
\* final Save runs after all of them have returned.
C32_StopStopsEveryTask ==
  /\ (svc.stopCh ~> (Running(svc) = 0 /\ svc.stop = "returned"))
  /\ [](svc.finalSave \in {-1, 0})
  /\ [](svc.late = {})

\* C32 amended: after Service.Stop closed the stop channel, every task
\* returns in the end (a task may take its ticker's case again before it
\* takes the stop channel's), Stop's wait returns, and the final Save runs
\* with no task left running.
C32_StopTerminates ==
  /\ (svc.stopCh ~> (Running(svc) = 0 /\ svc.stop = "returned"))
  /\ [](svc.finalSave \in {-1, 0})

\* C32 witness: Stop has returned after its final Save, and the poller and
\* the saver each ran a tick after the stop channel was closed.
C32_Witness ==
  /\ svc.stop = "returned" /\ svc.finalSave = 0
  /\ {"poller", "saver"} \subseteq svc.late

\* C35: on a cold start, once the poller of an index has looked its
\* collection state up, the state holds the configured timestamp_field and
\* id_field, and until the first tick has ended its last_poll_time is the
\* largest timestamp of the source.
C35_ColdStartStateConfigured ==
  \A i \in cfg.idx :
    poll[i].pc \in {"wait", "iter", "flush", "commit", "incr", "sync"} =>
      LET cs == state[CollKey(i)]
      IN /\ cs.exists /\ cs.tsField = "updated_at" /\ cs.idField = "_id"
         /\ (poll[i].pc = "wait" /\ cs.lst = 0) => cs.lpt = GetLastDocumentTimestamp(source)

\* C39: whenever the initial indexer of an index has terminated (completed,
\* failed to open its cursor, or stopped in the middle of its scan), the
\* sync_status of its collection is idle.
C39_TerminatedIsIdle ==
  \A i \in cfg.idx :
    init[i].pc \in {"done", "failed", "stopped"} => sync[CollKey(i)].status = "idle"

\* C36: whatever index names the engine holds, IndexDocument and
\* SearchSharded on a configured index end with a result or an error, never
\* with a fault, and when the physical indexes of the target are all open
\* the shard count computed for it is the number of its own shards.
C36_NoFaultOwnShards ==
  engine.last.op \in {"index", "search"} =>
    /\ engine.last.kind # "panic"
    /\ engine.last.present =>
         engine.last.count = Cardinality(PhysicalNames(engine.last.index,
                                           engine.shards[engine.last.index])
                                         \ {engine.last.index})

====
